---------------------------- MODULE Spec2Model ----------------------------
(***************************************************************************)
(* Build-time aggregation pipeline of marumie-gov (preprocess script in    *)
(* src/unnamed/part_007, lines 59-1691): per-year CSV rows are aggregated  *)
(* into Sankey graphs, statistics, ministry lists and per-project          *)
(* expenditure maps, and all years are merged into project time series.    *)
(*                                                                         *)
(* CSV cells.  csv-parse runs with cast:true, so a cell is a number, a     *)
(* string or (blank / column absent) a falsy value.  Numeric cells are     *)
(* modelled as <<>> (blank, null, absent) or <<n>>; text cells as strings  *)
(* with "" for blank; ids as integers with 0 for blank (0 and blank are    *)
(* both falsy and the code only ever tests ids with `!id`).                *)
(*                                                                         *)
(* Column names (the source uses Japanese headers):                        *)
(*   budgetYear          予算年度                                          *)
(*   projectYear         事業年度                                          *)
(*   ministry            府省庁                                            *)
(*   projectId           予算事業ID                                        *)
(*   projectName         事業名                                            *)
(*   initialBudgetHalf   当初予算(合計)      (half-width parentheses)      *)
(*   initialBudgetFull   当初予算（合計）    (full-width parentheses)      *)
(*   executionHalf       執行額(合計)                                      *)
(*   executionFull       執行額（合計）                                    *)
(*   executionRate       執行率                                            *)
(*   recipientName       支出先名                                          *)
(*   amountYen           金額                                              *)
(*   amountMillion       支出額（百万円）                                  *)
(*   amountPlain         支出額                                            *)
(*   startYearDeclared   事業開始年度                                      *)
(*   endYearFull         事業終了（予定）年度                              *)
(*   endYearHalf         事業終了(予定)年度                                *)
(***************************************************************************)
EXTENDS Integers, Sequences, FiniteSets, TLC

VARIABLES
    csv,             \* data/rs_system: year |-> [overview, budget, expenditure, connection, unreadable] for each existing year directory
    pc,              \* position of main(): "years", ..., "done"; "rejected" and "exit1" after a failure
    io,              \* the file operations in flight and the results awaited so far
    yearIdx,         \* index into YEARS_TO_PROCESS of the next loop iteration of main()
    sankeyMainData,  \* year |-> result of generate6ColumnMainSankeyData (local of processYearData, not written)
    outFiles         \* public/data: <<directory, file name>> |-> content written

vars == <<csv, pc, io, yearIdx, sankeyMainData, outFiles>>

-----------------------------------------------------------------------------
(* Generic helpers: JavaScript values and containers *)

Blank == <<>>

Cell(n) == <<n>>

\* JS truthiness of a numeric cell
Truthy(c) == c # Blank /\ c[1] # 0

\* a || b
Or(a, b) == IF Truthy(a) THEN a ELSE b

\* a || 0
OrZero(a) == IF Truthy(a) THEN a ELSE Cell(0)

Min(a, b) == IF a < b THEN a ELSE b

Max(a, b) == IF a > b THEN a ELSE b

Abs(a) == IF a < 0 THEN 0 - a ELSE a

\* Array.prototype.reduce / forEach with an accumulator, in index order.
\* `acc = acc` is always true; it makes the accumulator of step i - 1 be
\* computed before step i starts, as the loop does, instead of inside step i.
FoldSeq(op(_, _), base, seq) ==
    LET iter[i \in 0..Len(seq)] ==
            IF i = 0 THEN base
            ELSE LET acc == iter[i - 1]
                 IN  IF acc = acc THEN op(acc, seq[i]) ELSE base
    IN  iter[Len(seq)]

SumSeq(seq) == FoldSeq(LAMBDA acc, x: acc + x, 0, seq)

MapSeq(op(_), seq) == [i \in 1..Len(seq) |-> op(seq[i])]

\* Array.prototype.slice(0, n)
SliceTo(seq, n) == SubSeq(seq, 1, Min(n, Len(seq)))

\* Array.prototype.slice(n)
SliceFrom(seq, n) == SubSeq(seq, n + 1, Len(seq))

\* Array.prototype.sort((a, b) => Key(b) - Key(a)): descending and stable
\* (equal keys keep their order), as V8's sort is.
SortDesc(seq, Key(_)) ==
    LET Rank(i) == Cardinality({j \in 1..Len(seq) :
                        \/ Key(seq[j]) > Key(seq[i])
                        \/ (Key(seq[j]) = Key(seq[i]) /\ j < i)}) + 1
    IN  [p \in 1..Len(seq) |-> seq[CHOOSE i \in 1..Len(seq) : Rank(i) = p]]

\* A JS Map (or keyed object) as the sequence of its entries in insertion
\* order; every entry is a record with a field `key`.
Has(map, k) == \E i \in 1..Len(map) : map[i].key = k

Get(map, k) == map[CHOOSE i \in 1..Len(map) : map[i].key = k]

\* Map.set: an existing key keeps its position
Put(map, e) ==
    IF Has(map, e.key)
    THEN [i \in 1..Len(map) |-> IF map[i].key = e.key THEN e ELSE map[i]]
    ELSE Append(map, e)

Keys(map) == {map[i].key : i \in 1..Len(map)}

-----------------------------------------------------------------------------
(* Program constants *)

\* last fiscal year recorded in millions of yen
UnitCutoffYear == 2023

\* the newest fiscal year, whose files carry yen amounts and execution rates
NewestYear == 2024

topNMinistries == 10

TopExpenditures == 10

DifferencePerMille == 1000

MillionYen == 1000000

-----------------------------------------------------------------------------
(* Amount Normalizer *)

\* normalizeAmount with the cutoff year itself treated as a yen year
normalizeAmount_OffByOne(amount, year) ==
    IF ~Truthy(amount) THEN 0
    ELSE IF year < UnitCutoffYear THEN amount[1] * MillionYen
    ELSE amount[1]

normalizeAmount(amount, year) ==
    IF ~Truthy(amount) THEN 0
    ELSE IF year <= UnitCutoffYear THEN amount[1] * MillionYen
    ELSE amount[1]

\* budget['当初予算(合計)'] || budget['当初予算（合計）'] || 0
RawInitialBudget(budget) ==
    OrZero(Or(budget.initialBudgetHalf, budget.initialBudgetFull))

\* exp.金額 || exp['支出額（百万円）'] || 0
RawExpenditure(exp) == OrZero(Or(exp.amountYen, exp.amountMillion))

-----------------------------------------------------------------------------
(* Graph Builder: parts shared by the text of both flavors *)

NewMinistry(m) == [key |-> m, budget |-> 0, execution |-> 0]

Entry(map, m) == IF Has(map, m) THEN Get(map, m) ELSE NewMinistry(m)

BudgetKey(e) == e.budget

ExecutionKey(e) == e.execution

\* { name, budget, execution } of a collapsed ministry
ListItem(e) == [name |-> e.key, budget |-> e.budget, execution |-> e.execution]

\* budget-side node ids in the namespace of the execution side
BudgetNodeId_ExecutionPrefix(ministry) == "ministry_execution_" \o ministry

BudgetNodeId(ministry) == "ministry_budget_" \o ministry

\* the execution-side id built with the budget-side tag
ExecutionNodeId_SharedPrefix(ministry) == "ministry_budget_" \o ministry

ExecutionNodeId(ministry) == "ministry_execution_" \o ministry

\* the comparison of line 550 / 879 with >= for >
ExceedsThreshold_Strictness(totalBudget, totalExecution) ==
    Abs(totalBudget - totalExecution) >= Max(totalBudget, totalExecution) \div DifferencePerMille

\* difference > threshold, threshold = Math.max(totalBudget, totalExecution) * 0.001.
\* For an integer d and the real number x = max / 1000, d > x holds exactly
\* when d > floor(x); \div is floor division, and no product is formed.
ExceedsThreshold(totalBudget, totalExecution) ==
    Abs(totalBudget - totalExecution) > Max(totalBudget, totalExecution) \div DifferencePerMille

\* differenceData with the signed difference budget - execution
DifferenceData_Signed(totalBudget, totalExecution, direction) ==
    [budgetTotal |-> totalBudget,
     executionTotal |-> totalExecution,
     difference |-> totalBudget - totalExecution,
     direction |-> direction]

\* differenceData of a difference node
DifferenceData(totalBudget, totalExecution, direction) ==
    [budgetTotal |-> totalBudget,
     executionTotal |-> totalExecution,
     difference |-> Abs(totalBudget - totalExecution),
     direction |-> direction]

\* metadata of an `others` node whose list leaves out the first collapsed ministry
OthersMetadata_ListSkipsFirst(others) ==
    [ministry |-> "other ministries",
     budget |-> SumSeq(MapSeq(BudgetKey, others)),
     execution |-> SumSeq(MapSeq(ExecutionKey, others)),
     ministryList |-> MapSeq(ListItem, SubSeq(others, 2, Len(others)))]

\* metadata of an `others` node whose sums skip the last collapsed ministry
OthersMetadata_DropsLast(others) ==
    [ministry |-> "other ministries",
     budget |-> SumSeq(MapSeq(BudgetKey, SubSeq(others, 1, Len(others) - 1))),
     execution |-> SumSeq(MapSeq(ExecutionKey, SubSeq(others, 1, Len(others) - 1))),
     ministryList |-> MapSeq(ListItem, others)]

\* metadata of an `others` node
OthersMetadata(others) ==
    [ministry |-> "other ministries",
     budget |-> SumSeq(MapSeq(BudgetKey, others)),
     execution |-> SumSeq(MapSeq(ExecutionKey, others)),
     ministryList |-> MapSeq(ListItem, others)]

OthersName(others) == "others " \o ToString(Len(others))

-----------------------------------------------------------------------------
(* Graph Builder, flavor A: generate6ColumnMainSankeyData *)

\* lines 384-442: the two accumulation loops.  The per-ministry `projects`
\* sub-map is written but never read by the function and is left out.
Aggregate6Column(budgetData, expenditureData, year) ==
    LET currentYearBudgetData == SelectSeq(budgetData, LAMBDA b: b.budgetYear = year)
        currentYearExpenditureData == SelectSeq(expenditureData, LAMBDA e: e.projectYear = year)
        BudgetStep(acc, budget) ==
            IF budget.ministry = "" \/ budget.projectId = 0 \/ budget.projectName = ""
            THEN acc
            ELSE LET budgetAmount == normalizeAmount(RawInitialBudget(budget), year)
                     data == Entry(acc.ministryData, budget.ministry)
                 IN  [ministryData |-> Put(acc.ministryData, [data EXCEPT !.budget = @ + budgetAmount]),
                      totalBudget |-> acc.totalBudget + budgetAmount,
                      totalExecution |-> acc.totalExecution]
        ExpenditureStep(acc, exp) ==
            IF exp.ministry = "" \/ exp.projectId = 0 \/ exp.projectName = ""
            THEN acc
            ELSE LET expenditureAmount == normalizeAmount(RawExpenditure(exp), year)
                     data == Entry(acc.ministryData, exp.ministry)
                 IN  [ministryData |-> Put(acc.ministryData, [data EXCEPT !.execution = @ + expenditureAmount]),
                      totalBudget |-> acc.totalBudget,
                      totalExecution |-> acc.totalExecution + expenditureAmount]
        afterBudget == FoldSeq(BudgetStep,
                               [ministryData |-> <<>>, totalBudget |-> 0, totalExecution |-> 0],
                               currentYearBudgetData)
    IN  FoldSeq(ExpenditureStep, afterBudget, currentYearExpenditureData)

generate6ColumnMainSankeyData(budgetData, expenditureData, year) ==
    LET agg == Aggregate6Column(budgetData, expenditureData, year)
        ministryData == agg.ministryData
        totalBudget == agg.totalBudget
        totalExecution == agg.totalExecution
        sortedMinistries == SortDesc(ministryData, BudgetKey)
        topMinistries == SliceTo(sortedMinistries, topNMinistries)
        otherMinistries == SliceFrom(sortedMinistries, topNMinistries)
        sortedMinistriesByExecution == SortDesc(ministryData, ExecutionKey)
        topMinistriesByExecution == SliceTo(sortedMinistriesByExecution, topNMinistries)
        otherMinistriesByExecution == SliceFrom(sortedMinistriesByExecution, topNMinistries)
        MinistryNode(e, side, col) ==
            [id |-> IF side = "budget" THEN BudgetNodeId(e.key) ELSE ExecutionNodeId(e.key),
             name |-> e.key, type |-> "ministry", column |-> col,
             metadata |-> [ministry |-> e.key, budget |-> e.budget, execution |-> e.execution]]
        budgetNodes ==
            [i \in 1..Len(topMinistries) |-> MinistryNode(topMinistries[i], "budget", 0)]
            \o (IF Len(otherMinistries) > 0
                THEN <<[id |-> "ministry_others_budget", name |-> OthersName(otherMinistries),
                        type |-> "others", column |-> 0,
                        metadata |-> OthersMetadata(otherMinistries)]>>
                ELSE <<>>)
            \o <<[id |-> "total_budget", name |-> "budget total", type |-> "total", column |-> 1,
                  metadata |-> [budget |-> totalBudget]]>>
        budgetLinks ==
            [i \in 1..Len(topMinistries) |->
                [source |-> BudgetNodeId(topMinistries[i].key), target |-> "total_budget",
                 value |-> topMinistries[i].budget]]
            \o (IF Len(otherMinistries) > 0
                THEN <<[source |-> "ministry_others_budget", target |-> "total_budget",
                        value |-> SumSeq(MapSeq(BudgetKey, otherMinistries))]>>
                ELSE <<>>)
        totalExecutionNode ==
            <<[id |-> "total_execution", name |-> "execution total", type |-> "total", column |-> 2,
               metadata |-> [execution |-> totalExecution]]>>
        \* lines 538-544: always pushed, whatever the difference
        flowLink ==
            <<[source |-> "total_budget", target |-> "total_execution",
               value |-> Min(totalBudget, totalExecution)]>>
        hasDifference == ExceedsThreshold(totalBudget, totalExecution)
        differenceNodes ==
            IF ~hasDifference THEN <<>>
            ELSE IF totalBudget > totalExecution
            THEN <<[id |-> "difference_budget_excess", name |-> "difference (budget excess)",
                    type |-> "difference", column |-> 2,
                    metadata |-> [differenceData |->
                        DifferenceData(totalBudget, totalExecution, "budget-excess")]]>>
            ELSE <<[id |-> "difference_execution_excess", name |-> "difference (execution excess)",
                    type |-> "difference", column |-> 1,
                    metadata |-> [differenceData |->
                        DifferenceData(totalBudget, totalExecution, "execution-excess")]]>>
        differenceLinks ==
            IF ~hasDifference THEN <<>>
            ELSE IF totalBudget > totalExecution
            THEN <<[source |-> "total_budget", target |-> "difference_budget_excess",
                    value |-> Abs(totalBudget - totalExecution)]>>
            ELSE <<[source |-> "difference_execution_excess", target |-> "total_execution",
                    value |-> Abs(totalBudget - totalExecution)]>>
        executionNodes ==
            [i \in 1..Len(topMinistriesByExecution) |->
                MinistryNode(topMinistriesByExecution[i], "execution", 3)]
            \o (IF Len(otherMinistriesByExecution) > 0
                THEN <<[id |-> "ministry_others_execution",
                        name |-> OthersName(otherMinistriesByExecution),
                        type |-> "others", column |-> 3,
                        metadata |-> OthersMetadata(otherMinistriesByExecution)]>>
                ELSE <<>>)
        executionLinks ==
            [i \in 1..Len(topMinistriesByExecution) |->
                [source |-> "total_execution",
                 target |-> ExecutionNodeId(topMinistriesByExecution[i].key),
                 value |-> topMinistriesByExecution[i].execution]]
            \o (IF Len(otherMinistriesByExecution) > 0
                THEN <<[source |-> "total_execution", target |-> "ministry_others_execution",
                        value |-> SumSeq(MapSeq(ExecutionKey, otherMinistriesByExecution))]>>
                ELSE <<>>)
    IN  [nodes |-> budgetNodes \o totalExecutionNode \o differenceNodes \o executionNodes,
         links |-> budgetLinks \o flowLink \o differenceLinks \o executionLinks]

-----------------------------------------------------------------------------
(* Graph Builder, flavor B: generate4ColumnTopologyBasedSankeyData *)

\* lines 734-740: projectName -> ministry, from budget rows that have both
projectsByNameOf(currentYearBudgetData) ==
    FoldSeq(LAMBDA acc, budget:
                IF budget.projectName = "" \/ budget.ministry = "" THEN acc
                ELSE Put(acc, [key |-> budget.projectName, ministry |-> budget.ministry]),
            <<>>, currentYearBudgetData)

\* lines 745-750: the ministry owning an expenditure row ("" when the row is dropped)
OwnerOf(projectsByName, exp) ==
    IF exp.projectName = "" THEN ""
    ELSE IF Has(projectsByName, exp.projectName)
    THEN Get(projectsByName, exp.projectName).ministry
    ELSE ""

\* lines 765-766: currentAmount + expenditureAmount under the recipient name
AddRecipient(expenditures, name, amount) ==
    Put(expenditures,
        [key |-> name,
         amount |-> (IF Has(expenditures, name) THEN Get(expenditures, name).amount ELSE 0) + amount])

\* lines 711-786: ministryData, totalBudget and totalExecution
Aggregate4Column(budgetData, expenditureData, year) ==
    LET currentYearBudgetData == SelectSeq(budgetData, LAMBDA b: b.budgetYear = year)
        currentYearExpenditureData == SelectSeq(expenditureData, LAMBDA e: e.projectYear = year)
        BudgetStep(acc, budget) ==
            IF budget.ministry = "" THEN acc
            ELSE LET budgetAmount == normalizeAmount(RawInitialBudget(budget), year)
                     data == Entry(acc, budget.ministry)
                 IN  Put(acc, [data EXCEPT !.budget = @ + budgetAmount])
        budgetOnly == FoldSeq(BudgetStep, <<>>, currentYearBudgetData)
        projectsByName == projectsByNameOf(currentYearBudgetData)
        ExpenditureStep(acc, exp) ==
            LET ministry == OwnerOf(projectsByName, exp)
                expenditureAmount == normalizeAmount(RawExpenditure(exp), year)
                projectKey == ministry \o "_" \o exp.projectName
                project == IF Has(acc, projectKey) THEN Get(acc, projectKey)
                           ELSE [key |-> projectKey, ministry |-> ministry, expenditures |-> <<>>]
            IN  IF ministry = "" \/ exp.recipientName = "" \/ expenditureAmount = 0
                THEN acc
                ELSE Put(acc, [project EXCEPT
                        !.expenditures = AddRecipient(@, exp.recipientName, expenditureAmount)])
        projectExpenditures == FoldSeq(ExpenditureStep, <<>>, currentYearExpenditureData)
        ProjectStep(acc, project) ==
            LET data == Entry(acc, project.ministry)
                totalProjectExecution ==
                    SumSeq(MapSeq(LAMBDA e: e.amount, project.expenditures))
            IN  Put(acc, [data EXCEPT !.execution = @ + totalProjectExecution])
        ministryData == FoldSeq(ProjectStep, budgetOnly, projectExpenditures)
    IN  [ministryData |-> ministryData,
         totalBudget |-> SumSeq(MapSeq(BudgetKey, ministryData)),
         totalExecution |-> SumSeq(MapSeq(ExecutionKey, ministryData))]

\* lines 879-954 with the execution-excess difference node linked into total_budget
TotalLinks4Column_DifferenceIntoBudget(totalBudget, totalExecution) ==
    IF ~ExceedsThreshold(totalBudget, totalExecution)
    THEN <<[source |-> "total_budget", target |-> "total_execution",
            value |-> Min(totalBudget, totalExecution)]>>
    ELSE IF totalBudget > totalExecution
    THEN <<[source |-> "total_budget", target |-> "total_execution", value |-> totalExecution],
           [source |-> "total_budget", target |-> "difference_budget_excess",
            value |-> Abs(totalBudget - totalExecution)]>>
    ELSE <<[source |-> "total_budget", target |-> "total_execution", value |-> totalBudget],
           [source |-> "difference_execution_excess", target |-> "total_budget",
            value |-> Abs(totalBudget - totalExecution)]>>

\* lines 879-954 with the difference link of the execution-excess branch left out
TotalLinks4Column_NoDifferenceLink(totalBudget, totalExecution) ==
    IF ~ExceedsThreshold(totalBudget, totalExecution)
    THEN <<[source |-> "total_budget", target |-> "total_execution",
            value |-> Min(totalBudget, totalExecution)]>>
    ELSE IF totalBudget > totalExecution
    THEN <<[source |-> "total_budget", target |-> "total_execution", value |-> totalExecution],
           [source |-> "total_budget", target |-> "difference_budget_excess",
            value |-> Abs(totalBudget - totalExecution)]>>
    ELSE <<[source |-> "total_budget", target |-> "total_execution", value |-> totalBudget]>>

\* lines 879-954: the links between the total nodes and the difference node
TotalLinks4Column(totalBudget, totalExecution) ==
    IF ~ExceedsThreshold(totalBudget, totalExecution)
    THEN <<[source |-> "total_budget", target |-> "total_execution",
            value |-> Min(totalBudget, totalExecution)]>>
    ELSE IF totalBudget > totalExecution
    THEN <<[source |-> "total_budget", target |-> "total_execution", value |-> totalExecution],
           [source |-> "total_budget", target |-> "difference_budget_excess",
            value |-> Abs(totalBudget - totalExecution)]>>
    ELSE <<[source |-> "total_budget", target |-> "total_execution", value |-> totalBudget],
           [source |-> "difference_execution_excess", target |-> "total_execution",
            value |-> Abs(totalBudget - totalExecution)]>>

\* lines 879-946: the difference node, if any
DifferenceNodes4Column(totalBudget, totalExecution) ==
    IF ~ExceedsThreshold(totalBudget, totalExecution) THEN <<>>
    ELSE IF totalBudget > totalExecution
    THEN <<[id |-> "difference_budget_excess", name |-> "difference (budget excess)",
            type |-> "difference",
            metadata |-> [differenceData |->
                DifferenceData(totalBudget, totalExecution, "budget-excess")]]>>
    ELSE <<[id |-> "difference_execution_excess", name |-> "difference (execution excess)",
            type |-> "difference",
            metadata |-> [differenceData |->
                DifferenceData(totalBudget, totalExecution, "execution-excess")]]>>

generate4ColumnTopologyBasedSankeyData(budgetData, expenditureData, year) ==
    LET agg == Aggregate4Column(budgetData, expenditureData, year)
        ministryData == agg.ministryData
        totalBudget == agg.totalBudget
        totalExecution == agg.totalExecution
        sortedMinistries == SortDesc(ministryData, BudgetKey)
        topMinistries == SliceTo(sortedMinistries, topNMinistries)
        otherMinistries == SliceFrom(sortedMinistries, topNMinistries)
        sortedMinistriesByExecution == SortDesc(ministryData, ExecutionKey)
        topMinistriesByExecution == SliceTo(sortedMinistriesByExecution, topNMinistries)
        otherMinistriesByExecution == SliceFrom(sortedMinistriesByExecution, topNMinistries)
        MinistryNode(e, side) ==
            [id |-> IF side = "budget" THEN BudgetNodeId(e.key) ELSE ExecutionNodeId(e.key),
             name |-> e.key, type |-> "ministry",
             metadata |-> [ministry |-> e.key, budget |-> e.budget, execution |-> e.execution]]
        budgetNodes ==
            [i \in 1..Len(topMinistries) |-> MinistryNode(topMinistries[i], "budget")]
            \o (IF Len(otherMinistries) > 0
                THEN <<[id |-> "ministry_others_budget", name |-> OthersName(otherMinistries),
                        type |-> "others", metadata |-> OthersMetadata(otherMinistries)]>>
                ELSE <<>>)
            \o <<[id |-> "total_budget", name |-> "budget total", type |-> "total",
                  metadata |-> [budget |-> totalBudget]]>>
        budgetLinks ==
            [i \in 1..Len(topMinistries) |->
                [source |-> BudgetNodeId(topMinistries[i].key), target |-> "total_budget",
                 value |-> topMinistries[i].budget]]
            \o (IF Len(otherMinistries) > 0
                THEN <<[source |-> "ministry_others_budget", target |-> "total_budget",
                        value |-> SumSeq(MapSeq(BudgetKey, otherMinistries))]>>
                ELSE <<>>)
        totalExecutionNode ==
            <<[id |-> "total_execution", name |-> "execution total", type |-> "total",
               metadata |-> [execution |-> totalExecution]]>>
        executionNodes ==
            [i \in 1..Len(topMinistriesByExecution) |->
                MinistryNode(topMinistriesByExecution[i], "execution")]
            \o (IF Len(otherMinistriesByExecution) > 0
                THEN <<[id |-> "ministry_others_execution",
                        name |-> OthersName(otherMinistriesByExecution),
                        type |-> "others",
                        metadata |-> OthersMetadata(otherMinistriesByExecution)]>>
                ELSE <<>>)
        executionLinks ==
            [i \in 1..Len(topMinistriesByExecution) |->
                [source |-> "total_execution",
                 target |-> ExecutionNodeId(topMinistriesByExecution[i].key),
                 value |-> topMinistriesByExecution[i].execution]]
            \o (IF Len(otherMinistriesByExecution) > 0
                THEN <<[source |-> "total_execution", target |-> "ministry_others_execution",
                        value |-> SumSeq(MapSeq(ExecutionKey, otherMinistriesByExecution))]>>
                ELSE <<>>)
    IN  [nodes |-> budgetNodes \o totalExecutionNode
                   \o DifferenceNodes4Column(totalBudget, totalExecution) \o executionNodes,
         links |-> budgetLinks \o TotalLinks4Column(totalBudget, totalExecution) \o executionLinks]

\* convertToNivoFormat: nodes copied field by field, links reduced to
\* source, target and value
convertToNivoFormat(sankeyData) ==
    [nodes |-> sankeyData.nodes,
     links |-> MapSeq(LAMBDA link: [source |-> link.source, target |-> link.target,
                                    value |-> link.value],
                      sankeyData.links)]

-----------------------------------------------------------------------------
(* Per-year project expenditures: generateYearlyProjectExpendituresData *)

\* a JS object as the function from its keys to its entries
Object(map) == [k \in Keys(map) |-> Get(map, k)]

\* lines 1084-1106: projectId -> { ministry, projectName, budget }
projectsByIdOf(budgetData, year) ==
    LET currentYearBudgetData == SelectSeq(budgetData, LAMBDA b: b.budgetYear = year)
        BudgetStep(acc, budget) ==
            IF budget.projectId = 0 \/ budget.projectName = "" \/ budget.ministry = ""
            THEN acc
            ELSE LET budgetAmount == normalizeAmount(RawInitialBudget(budget), year)
                 IN  IF Has(acc, budget.projectId)
                     THEN Put(acc, [Get(acc, budget.projectId) EXCEPT !.budget = @ + budgetAmount])
                     ELSE Append(acc, [key |-> budget.projectId, ministry |-> budget.ministry,
                                       projectName |-> budget.projectName,
                                       budget |-> budgetAmount])
    IN  FoldSeq(BudgetStep, <<>>, currentYearBudgetData)

\* lines 1137-1142 with the amount of a repeated recipient overwritten
MergeExpenditure_Overwrite(expenditures, name, amount) ==
    IF \E i \in 1..Len(expenditures) : expenditures[i].name = name
    THEN [i \in 1..Len(expenditures) |->
            IF expenditures[i].name = name
            THEN [expenditures[i] EXCEPT !.amount = amount]
            ELSE expenditures[i]]
    ELSE Append(expenditures, [name |-> name, amount |-> amount])

\* lines 1137-1142: find the recipient by name and add, else push.  find()
\* returns the first match; the list never holds a name twice.
MergeExpenditure(expenditures, name, amount) ==
    IF \E i \in 1..Len(expenditures) : expenditures[i].name = name
    THEN LET first == CHOOSE i \in 1..Len(expenditures) :
                        /\ expenditures[i].name = name
                        /\ \A j \in 1..(i - 1) : expenditures[j].name # name
         IN  [expenditures EXCEPT ![first].amount = @ + amount]
    ELSE Append(expenditures, [name |-> name, amount |-> amount])

generateYearlyProjectExpendituresData(budgetData, expenditureData, year) ==
    LET projectsById == projectsByIdOf(budgetData, year)
        currentYearExpenditureData == SelectSeq(expenditureData, LAMBDA e: e.projectYear = year)
        ExpenditureStep(acc, exp) ==
            IF exp.projectId = 0 \/ ~Has(projectsById, exp.projectId) THEN acc
            ELSE LET projectInfo == Get(projectsById, exp.projectId)
                     expenditureAmount == normalizeAmount(RawExpenditure(exp), year)
                     entry == IF Has(acc, exp.projectId) THEN Get(acc, exp.projectId)
                              ELSE [key |-> exp.projectId, projectId |-> exp.projectId,
                                    projectName |-> projectInfo.projectName,
                                    ministry |-> projectInfo.ministry,
                                    budget |-> projectInfo.budget,
                                    expenditures |-> <<>>]
                 IN  IF exp.recipientName = "" \/ expenditureAmount = 0 THEN acc
                     ELSE Put(acc, [entry EXCEPT !.expenditures =
                                MergeExpenditure(@, exp.recipientName, expenditureAmount)])
        withExpenditures == FoldSeq(ExpenditureStep, <<>>, currentYearExpenditureData)
        Finish(project) ==
            [key |-> project.key, projectId |-> project.projectId,
             projectName |-> project.projectName, ministry |-> project.ministry,
             budget |-> project.budget,
             expenditures |-> SortDesc(project.expenditures, LAMBDA e: e.amount),
             totalExecution |-> SumSeq(MapSeq(LAMBDA e: e.amount, project.expenditures))]
        AddEmpty(acc, projectInfo) ==
            IF Has(acc, projectInfo.key) THEN acc
            ELSE Append(acc, [key |-> projectInfo.key, projectId |-> projectInfo.key,
                              projectName |-> projectInfo.projectName,
                              ministry |-> projectInfo.ministry,
                              budget |-> projectInfo.budget,
                              expenditures |-> <<>>, totalExecution |-> 0])
    IN  Object(FoldSeq(AddEmpty, MapSeq(Finish, withExpenditures), projectsById))

-----------------------------------------------------------------------------
(* Statistics and ministry list: calculateStatistics, extractMinistries *)

\* Rates are JS doubles in the source; the model keeps them as exact
\* reduced fractions [num, den].  A stated rate cell <<n>> is n per mille.
RECURSIVE GCD(_, _)
GCD(a, b) == IF b = 0 THEN a ELSE GCD(b, a % b)

Frac(n, d) == LET g == GCD(Abs(n), d) IN [num |-> n \div g, den |-> d \div g]

FracAdd(x, y) == Frac(x.num * y.den + y.num * x.den, x.den * y.den)

\* Math.min(rate, 1)
FracMin1(x) == IF x.num > x.den THEN Frac(1, 1) ELSE x

\* item['執行額(合計)'] || item['執行額（合計）'] || 0
RawExecution(budget) == OrZero(Or(budget.executionHalf, budget.executionFull))

\* year === 2024 ? budgetYear === year - 1 : budgetYear === year
executionYearBudgetDataOf(budgetData, year) ==
    SelectSeq(budgetData,
              LAMBDA b: IF year = NewestYear THEN b.budgetYear = year - 1
                        ELSE b.budgetYear = year)

calculateStatistics(budgetData, expenditureData, year) ==
    LET currentYearBudgetData == SelectSeq(budgetData, LAMBDA b: b.budgetYear = year)
        totalBudget ==
            SumSeq(MapSeq(LAMBDA item: normalizeAmount(RawInitialBudget(item), year),
                          currentYearBudgetData))
        executionYearBudgetData == executionYearBudgetDataOf(budgetData, year)
        totalExecution ==
            SumSeq(MapSeq(LAMBDA item: normalizeAmount(RawExecution(item), year),
                          executionYearBudgetData))
        validRates ==
            SelectSeq(executionYearBudgetData,
                      LAMBDA item:
                        IF year = NewestYear THEN Truthy(item.executionRate)
                        ELSE RawInitialBudget(item)[1] > 0 /\ RawExecution(item)[1] > 0)
        RateOf(item) ==
            IF year = NewestYear THEN Frac(item.executionRate[1], 1000)
            ELSE LET budget == normalizeAmount(RawInitialBudget(item), year)
                     execution == normalizeAmount(RawExecution(item), year)
                 IN  IF budget > 0 THEN Frac(execution, budget) ELSE Frac(0, 1)
        rateSum == FoldSeq(LAMBDA sum, item: FracAdd(sum, FracMin1(RateOf(item))),
                           Frac(0, 1), validRates)
        averageExecutionRate ==
            IF Len(validRates) > 0 THEN Frac(rateSum.num, rateSum.den * Len(validRates))
            ELSE Frac(0, 1)
        eventCount ==
            Cardinality({currentYearBudgetData[i].projectId : i \in 1..Len(currentYearBudgetData)})
        ministryCount ==
            Cardinality({currentYearBudgetData[i].ministry : i \in 1..Len(currentYearBudgetData)})
        currentYearExpenditureData == SelectSeq(expenditureData, LAMBDA e: e.projectYear = year)
        projectExpenditureMap ==
            {currentYearExpenditureData[i].projectId :
                i \in {j \in 1..Len(currentYearExpenditureData) :
                        /\ currentYearExpenditureData[j].projectId # 0
                        /\ currentYearExpenditureData[j].recipientName # ""}}
        \* item.金額 || item['支出額'] || 0
        totalExpenditure ==
            SumSeq(MapSeq(LAMBDA item:
                            normalizeAmount(OrZero(Or(item.amountYen, item.amountPlain)), year),
                          currentYearExpenditureData))
    IN  [totalBudget |-> totalBudget,
         totalExecution |-> totalExecution,
         totalExpenditure |-> totalExpenditure,
         averageExecutionRate |-> averageExecutionRate,
         eventCount |-> eventCount,
         ministryCount |-> ministryCount,
         expenditureCount |-> Len(currentYearExpenditureData),
         projectsWithoutExpenditures |-> eventCount - Cardinality(projectExpenditureMap)]

extractMinistries(budgetData, year) ==
    LET currentYearBudgetData == SelectSeq(budgetData, LAMBDA b: b.budgetYear = year)
        executionYearBudgetData == executionYearBudgetDataOf(budgetData, year)
        BudgetStep(acc, budget) ==
            IF budget.ministry = "" THEN acc
            ELSE Put(acc, [Entry(acc, budget.ministry) EXCEPT
                        !.budget = @ + normalizeAmount(RawInitialBudget(budget), year)])
        ExecutionStep(acc, budget) ==
            IF budget.ministry = "" THEN acc
            ELSE Put(acc, [Entry(acc, budget.ministry) EXCEPT
                        !.execution = @ + normalizeAmount(RawExecution(budget), year)])
        ministryData == FoldSeq(ExecutionStep,
                                FoldSeq(BudgetStep, <<>>, currentYearBudgetData),
                                executionYearBudgetData)
    IN  SortDesc(MapSeq(ListItem, ministryData), BudgetKey)

-----------------------------------------------------------------------------
(* Cross-Year Project Aggregator: generateProjectTimeSeriesData *)

\* generateProjectKey: the hex MD5 digest of the project name.  The digest is
\* not computed; it is represented by a tagged copy of the name, that is, as
\* a deterministic function of the name without collisions.
generateProjectKey(projectName) == "md5(" \o projectName \o ")"

\* lines 1507-1529 with the stored amounts overwritten by every later row
MergeYearly_Overwrite(yearlyData, year, projectId, budgetAmount, executionAmount, rate) ==
    IF Has(yearlyData, year)
    THEN LET existingData == Get(yearlyData, year)
         IN  Put(yearlyData,
                 [existingData EXCEPT
                    !.budget = budgetAmount,
                    !.execution = executionAmount,
                    !.executionRate = IF Truthy(rate) THEN rate ELSE @])
    ELSE Append(yearlyData,
                [key |-> year, projectId |-> projectId, budget |-> budgetAmount,
                 execution |-> executionAmount, executionRate |-> rate])

\* lines 1507-1529 with the year's entry accumulated under one shared key
MergeYearly_OneEntry(yearlyData, year, projectId, budgetAmount, executionAmount, rate) ==
    IF Len(yearlyData) > 0
    THEN <<[yearlyData[1] EXCEPT !.budget = @ + budgetAmount,
                                 !.execution = @ + executionAmount]>>
    ELSE <<[key |-> year, projectId |-> projectId, budget |-> budgetAmount,
            execution |-> executionAmount, executionRate |-> rate]>>

\* lines 1507-1529: project.yearlyData[year] after one budget row
MergeYearly(yearlyData, year, projectId, budgetAmount, executionAmount, rate) ==
    IF Has(yearlyData, year)
    THEN LET existingData == Get(yearlyData, year)
         IN  Put(yearlyData,
                 [existingData EXCEPT
                    !.budget = IF @ = 0 /\ budgetAmount > 0 THEN budgetAmount ELSE @,
                    !.execution = IF @ = 0 /\ executionAmount > 0 THEN executionAmount ELSE @,
                    !.executionRate = IF Truthy(rate) THEN rate ELSE @])
    ELSE Append(yearlyData,
                [key |-> year, projectId |-> projectId, budget |-> budgetAmount,
                 execution |-> executionAmount, executionRate |-> rate])

\* lines 1474-1531: projectMap after the budget rows of all years;
\* `years` is the sequence of years whose directory exists, in AVAILABLE_YEARS order
projectMapOfBudgets(data, years) ==
    LET YearStep(projectMap, year) ==
            LET RowStep(acc, budget) ==
                    IF budget.projectName = "" \/ budget.projectId = 0 THEN acc
                    ELSE LET project ==
                                IF Has(acc, budget.projectName) THEN Get(acc, budget.projectName)
                                ELSE [key |-> budget.projectName,
                                      projectName |-> budget.projectName,
                                      projectKey |-> generateProjectKey(budget.projectName),
                                      ministry |-> budget.ministry,
                                      startYear |-> Blank, endYear |-> Blank,
                                      yearlyData |-> <<>>, expenditureMap |-> <<>>]
                             rawBudget == Or(budget.initialBudgetHalf, budget.initialBudgetFull)
                             rawExecution == Or(budget.executionHalf, budget.executionFull)
                             budgetAmount ==
                                IF Truthy(rawBudget) THEN normalizeAmount(rawBudget, year) ELSE 0
                             executionAmount ==
                                IF Truthy(rawExecution) THEN normalizeAmount(rawExecution, year) ELSE 0
                         IN  Put(acc, [project EXCEPT !.yearlyData =
                                    MergeYearly(@, year, budget.projectId, budgetAmount,
                                                executionAmount, budget.executionRate)])
            IN  FoldSeq(RowStep, projectMap,
                        SelectSeq(data[year].budget, LAMBDA b: b.budgetYear = year))
    IN  FoldSeq(YearStep, <<>>, years)

\* lines 1545-1558 without the test that nothing is set yet
DeclaredYear_LastWins(current, cell, lo, hi) ==
    IF Truthy(cell) /\ cell[1] >= lo /\ cell[1] <= hi
    THEN cell ELSE current

\* lines 1545-1558: accept a declared year inside [lo, hi], once
DeclaredYear(current, cell, lo, hi) ==
    IF current = Blank /\ Truthy(cell) /\ cell[1] >= lo /\ cell[1] <= hi
    THEN cell ELSE current

\* lines 1535-1560: start and end year from the overview rows, newest year first
withDeclaredYears(projectMap, data, years) ==
    LET sortedYears == SortDesc(years, LAMBDA y: y)
        RowStep(acc, overview) ==
            IF overview.projectName = "" \/ ~Has(acc, overview.projectName) THEN acc
            ELSE LET project == Get(acc, overview.projectName)
                 IN  Put(acc, [project EXCEPT
                        !.startYear = DeclaredYear(@, overview.startYearDeclared, 2000, 2030),
                        !.endYear = DeclaredYear(@, Or(overview.endYearFull, overview.endYearHalf),
                                                 2000, 2050)])
        YearStep(acc, year) == FoldSeq(RowStep, acc, data[year].overview)
    IN  FoldSeq(YearStep, projectMap, sortedYears)

\* lines 1575-1577: the amount of an expenditure row in the time series
TimeSeriesAmount(exp, year) ==
    IF year = NewestYear THEN OrZero(exp.amountYen)[1]
    ELSE normalizeAmount(OrZero(Or(exp.amountMillion, exp.amountPlain)), year)

\* lines 1581-1597: one recipient of project._expenditureMap after one row
AddToRecipient(expenditureMap, name, year, amount) ==
    LET expData == IF Has(expenditureMap, name) THEN Get(expenditureMap, name)
                   ELSE [key |-> name, name |-> name, totalAmount |-> 0,
                         yearCount |-> 0, yearlyAmounts |-> <<>>]
        \* !expData.yearlyAmounts[year]: absent, or present with the value 0
        fresh == ~Has(expData.yearlyAmounts, year) \/ Get(expData.yearlyAmounts, year).amount = 0
        before == IF fresh THEN 0 ELSE Get(expData.yearlyAmounts, year).amount
    IN  Put(expenditureMap,
            [expData EXCEPT
                !.totalAmount = @ + amount,
                !.yearCount = IF fresh THEN @ + 1 ELSE @,
                !.yearlyAmounts = Put(@, [key |-> year, amount |-> before + amount])])

\* lines 1563-1599: the expenditure rows of all years
withExpenditures(projectMap, data, years) ==
    LET YearStep(projects, year) ==
            LET RowStep(acc, exp) ==
                    IF exp.projectName = "" \/ ~Has(acc, exp.projectName) THEN acc
                    ELSE LET project == Get(acc, exp.projectName)
                             amount == TimeSeriesAmount(exp, year)
                         IN  IF exp.recipientName = "" \/ amount = 0 THEN acc
                             ELSE Put(acc, [project EXCEPT !.expenditureMap =
                                        AddToRecipient(@, exp.recipientName, year, amount)])
            IN  FoldSeq(RowStep, projects,
                        SelectSeq(data[year].expenditure, LAMBDA e: e.projectYear = year))
    IN  FoldSeq(YearStep, projectMap, years)

\* line 1607 with the first recipients in insertion order kept, unsorted
TopOf_Unsorted(expenditureMap) ==
    SliceTo(MapSeq(LAMBDA e: [name |-> e.name, totalAmount |-> e.totalAmount,
                              yearCount |-> e.yearCount,
                              yearlyAmounts |-> Object(e.yearlyAmounts)],
                   expenditureMap),
            TopExpenditures)

\* lines 1604-1607: sort by cross-year total, keep the first ten
TopOf(expenditureMap) ==
    SliceTo(MapSeq(LAMBDA e: [name |-> e.name, totalAmount |-> e.totalAmount,
                              yearCount |-> e.yearCount,
                              yearlyAmounts |-> Object(e.yearlyAmounts)],
                   SortDesc(expenditureMap, LAMBDA e: e.totalAmount)),
            TopExpenditures)

\* lines 1602-1612: the project as written to projects/<projectKey>.json
ProjectDetail(project) ==
    [projectName |-> project.projectName,
     projectKey |-> project.projectKey,
     ministry |-> project.ministry,
     startYear |-> project.startYear,
     endYear |-> project.endYear,
     yearlyData |-> Object(project.yearlyData),
     topExpenditures |-> TopOf(project.expenditureMap)]

\* steps 2-5 of generateProjectTimeSeriesData: the projects in projectMap order
ProjectTimeSeries(data, years) ==
    MapSeq(ProjectDetail,
           withExpenditures(withDeclaredYears(projectMapOfBudgets(data, years), data, years),
                            data, years))

\* lines 1615-1640: one ProjectIndexItem
ProjectIndexItem(p) ==
    LET years == SortDesc([i \in 1..Cardinality(DOMAIN p.yearlyData) |->
                            CHOOSE y \in DOMAIN p.yearlyData :
                                Cardinality({z \in DOMAIN p.yearlyData : z < y}) = i - 1],
                          LAMBDA y: 0 - y)
        totalBudget == SumSeq(MapSeq(LAMBDA y: p.yearlyData[y].budget, years))
    IN  [projectKey |-> p.projectKey,
         projectName |-> p.projectName,
         ministry |-> p.ministry,
         startYear |-> p.startYear,
         endYear |-> p.endYear,
         dataStartYear |-> years[1],
         dataEndYear |-> years[Len(years)],
         totalBudget |-> totalBudget,
         averageBudget |-> Frac(totalBudget, Len(years)),
         yearlyBudgets |-> [y \in DOMAIN p.yearlyData |-> p.yearlyData[y].budget]]

\* project-index.json in the order the projects were first met
ProjectIndex_Unsorted(projects) ==
    MapSeq(ProjectIndexItem, projects)

\* lines 1615-1640: project-index.json
ProjectIndex(projects) ==
    SortDesc(MapSeq(ProjectIndexItem, projects), LAMBDA item: item.totalBudget)

-----------------------------------------------------------------------------
(* The run: main(), processYearData, generateProjectTimeSeriesData *)

\* number of fiscal years of AVAILABLE_YEARS that are modelled (the newest ones)
NumYears == 2

\* AVAILABLE_YEARS of types/rs-system, which ends with the newest year
AVAILABLE_YEARS == [i \in 1..NumYears |-> NewestYear - NumYears + i]

YEARS_TO_PROCESS == AVAILABLE_YEARS

\* path.join(OUTPUT_BASE_PATH, `year_${year}`)
YearDir(year) == "year_" \o ToString(year)

\* checkYearDirectoryExists
checkYearDirectoryExists(data, year) == year \in DOMAIN data

\* the year whose directory also holds the block-connection file
ConnectionYear == 2024

\* the files parseCSV is called for by processYearData
ReadsOfYear(year) ==
    IF year = ConnectionYear THEN {"budget", "expenditure", "connection"}
    ELSE {"budget", "expenditure"}

\* parseCSV rethrows the failure of an unreadable file
parseCSVRejects_Unreadable(dir, kind) == kind \in dir.unreadable

\* parseCSV, catch block: no failure of reading or parsing leaves the function
parseCSVRejects(dir, kind) == FALSE

\* parseCSV: the records of the file, or [] when it cannot be read or parsed
parseCSV(dir, kind) == IF kind \in dir.unreadable THEN <<>> ELSE dir[kind]

\* loadYearData: [overviewData, budgetData, expenditureData] of one directory
loadYearData(dir) ==
    [overview |-> parseCSV(dir, "overview"),
     budget |-> parseCSV(dir, "budget"),
     expenditure |-> parseCSV(dir, "expenditure")]

\* a rejection of processYearData or generateProjectTimeSeriesData reaches
\* main().catch, which calls process.exit(1)
mainCatch_Continues == "years"

mainCatch == "exit1"

\* lines 174-198: the four files of one year
YearFiles(budgetData, expenditureData, year) ==
    LET sankeyTopologyData ==
            generate4ColumnTopologyBasedSankeyData(budgetData, expenditureData, year)
        statistics == calculateStatistics(budgetData, expenditureData, year)
        ministries == extractMinistries(budgetData, year)
        projectExpenditures ==
            generateYearlyProjectExpendituresData(budgetData, expenditureData, year)
    IN  (<<YearDir(year), "sankey-main-topology-nivo.json">> :> convertToNivoFormat(sankeyTopologyData))
        @@ (<<YearDir(year), "statistics.json">> :> statistics)
        @@ (<<YearDir(year), "ministries.json">> :> ministries)
        @@ (<<YearDir(year), "project-expenditures.json">> :> projectExpenditures)

\* no file operation in flight, nothing loaded
NoIO == [reads |-> {}, loaded |-> <<>>, writes |-> {}, tsIdx |-> 1, all |-> <<>>,
         projects |-> <<>>]

\* one iteration of the loop of main() for a year whose directory exists
ProcessYearData ==
    /\ pc = "years"
    /\ yearIdx <= Len(YEARS_TO_PROCESS)
    /\ LET year == YEARS_TO_PROCESS[yearIdx]
           budgetData == parseCSV(csv[year], "budget")
           expenditureData == parseCSV(csv[year], "expenditure")
       IN  /\ checkYearDirectoryExists(csv, year)
           /\ IF \E kind \in ReadsOfYear(year) : parseCSVRejects(csv[year], kind)
              THEN /\ pc' = mainCatch
                   /\ UNCHANGED <<yearIdx, sankeyMainData, outFiles>>
              ELSE /\ sankeyMainData' =
                        (year :> generate6ColumnMainSankeyData(budgetData, expenditureData, year))
                        @@ sankeyMainData
                   /\ outFiles' = YearFiles(budgetData, expenditureData, year) @@ outFiles
                   /\ yearIdx' = yearIdx + 1
                   /\ pc' = pc
    /\ UNCHANGED <<csv, io>>

\* one iteration of the loop of main() for a year without directory
SkipYear ==
    /\ pc = "years"
    /\ yearIdx <= Len(YEARS_TO_PROCESS)
    /\ ~checkYearDirectoryExists(csv, YEARS_TO_PROCESS[yearIdx])
    /\ yearIdx' = yearIdx + 1
    /\ UNCHANGED <<csv, pc, io, sankeyMainData, outFiles>>

\* the years loadYearData is called for, in AVAILABLE_YEARS order
ExistingYears(data) ==
    SelectSeq(AVAILABLE_YEARS, LAMBDA y: checkYearDirectoryExists(data, y))

\* lines 1642-1664: project-index.json and one file per project
TimeSeriesFiles(data) ==
    LET loaded == [y \in DOMAIN data |-> loadYearData(data[y])]
        projects == ProjectTimeSeries(loaded, ExistingYears(data))
        keys == {projects[i].projectKey : i \in 1..Len(projects)}
    IN  (<<"", "project-index.json">> :> ProjectIndex(projects))
        @@ [path \in {<<"projects", k \o ".json">> : k \in keys} |->
                LET i == CHOOSE j \in 1..Len(projects) :
                            <<"projects", projects[j].projectKey \o ".json">> = path
                IN  projects[i]]

\* after the loop: generateProjectTimeSeriesData, then the run completes
GenerateProjectTimeSeriesData ==
    /\ pc = "years"
    /\ yearIdx > Len(YEARS_TO_PROCESS)
    /\ IF \E y \in DOMAIN csv, kind \in {"overview", "budget", "expenditure"} :
            parseCSVRejects(csv[y], kind)
       THEN /\ pc' = mainCatch
            /\ UNCHANGED outFiles
       ELSE /\ outFiles' = TimeSeriesFiles(csv) @@ outFiles
            /\ pc' = "done"
    /\ UNCHANGED <<csv, io, yearIdx, sankeyMainData>>

Next == ProcessYearData \/ SkipYear \/ GenerateProjectTimeSeriesData

-----------------------------------------------------------------------------
(* Inputs *)

\* total number of freely chosen CSV rows of an input
MaxRows == 3

\* number of ministries (and of recipients) of the many-entity inputs
NumFiller == 10

\* raw amount around which the difference threshold is exercised
BigAmount(year) == IF year <= UnitCutoffYear THEN 500 ELSE 1000

BRow(y, m, id, n, b, bFull, e, r) ==
    [budgetYear |-> y, ministry |-> m, projectId |-> id, projectName |-> n,
     initialBudgetHalf |-> b, initialBudgetFull |-> bFull,
     executionHalf |-> e, executionFull |-> Blank, executionRate |-> r]

\* the amount column a year's expenditure file carries
ERow(y, m, id, n, r, a) ==
    [projectYear |-> y, ministry |-> m, projectId |-> id, projectName |-> n,
     recipientName |-> r,
     amountYen |-> IF y >= NewestYear THEN a ELSE Blank,
     amountMillion |-> IF y >= NewestYear THEN Blank ELSE a,
     amountPlain |-> Blank]

ORow(n, s, e) ==
    [projectName |-> n, startYearDeclared |-> s, endYearFull |-> e, endYearHalf |-> Blank]

BudgetChoices(y) ==
    { BRow(y, "m1", 1, "a", Cell(BigAmount(y)), Blank, Cell(1), Blank),
      BRow(y, "m2", 2, "b", Cell(BigAmount(y) + 1), Blank, Blank, Cell(500)),
      BRow(y, "m1", 1, "a", Blank, Blank, Blank, Blank),
      BRow(y, "m2", 0, "a", Cell(1), Blank, Blank, Blank),
      BRow(y, "", 2, "b", Blank, Cell(1), Cell(2), Blank),
      BRow(y - 1, "m1", 1, "a", Cell(1), Blank, Cell(1), Blank) }

ExpenditureChoices(y) ==
    { ERow(y, "m1", 1, "a", "r1", Cell(BigAmount(y))),
      ERow(y, "m1", 1, "a", "r1", Cell(1)),
      ERow(y, "m2", 3, "a", "r2", Cell(BigAmount(y) + 1)),
      ERow(y, "m2", 2, "b", "", Cell(1)),
      ERow(y, "m1", 1, "a", "r2", Blank),
      ERow(y - 1, "m1", 1, "a", "r1", Cell(1)) }

\* a year directory: the records of its CSV files, and the files that are
\* missing or cannot be read or parsed (these have no records)
Dir(overview, budget, expenditure, unreadable) ==
    [overview |-> IF "overview" \in unreadable THEN <<>> ELSE overview,
     budget |-> IF "budget" \in unreadable THEN <<>> ELSE budget,
     expenditure |-> IF "expenditure" \in unreadable THEN <<>> ELSE expenditure,
     connection |-> <<>>,
     unreadable |-> unreadable]

SeqsUpTo(S, n) == UNION {[1..k -> S] : k \in 0..n}

\* NumFiller ministries f1.., each with one project: budgets ascending,
\* expenditures descending, so that the two rankings differ
FillerBudget(y) ==
    [i \in 1..NumFiller |->
        BRow(y, "f" \o ToString(i), 100 + i, "p" \o ToString(i), Cell(i), Blank, Blank, Blank)]

FillerExpenditure(y) ==
    [i \in 1..NumFiller |->
        ERow(y, "f" \o ToString(i), 100 + i, "p" \o ToString(i), "rf", Cell(NumFiller + 1 - i))]

\* the many-entity inputs vary two rows fewer than the others
FreeRows(filler) == IF filler THEN MaxRows - 2 ELSE MaxRows

\* one existing year directory; many ministries or few
InitOneYear ==
    \E y \in {UnitCutoffYear, NewestYear}, filler \in BOOLEAN :
      \E nb \in 0..FreeRows(filler) :
        \E b \in [1..nb -> BudgetChoices(y)],
           e \in SeqsUpTo(ExpenditureChoices(y), FreeRows(filler) - nb) :
            csv = (y :> Dir(<<>>,
                            (IF filler THEN FillerBudget(y) ELSE <<>>) \o b,
                            (IF filler THEN FillerExpenditure(y) ELSE <<>>) \o e,
                            {}))

TimeSeriesBudgetChoices(y) ==
    { BRow(y, "m1", 1, "a", Cell(BigAmount(y)), Blank, Cell(1), Blank),
      BRow(y, "m1", 1, "a", Blank, Blank, Blank, Cell(500)),
      BRow(y, "m2", 2, "b", Cell(1), Blank, Cell(2), Blank) }

TimeSeriesExpenditureChoices(y) ==
    { ERow(y, "m1", 1, "a", "r1", Cell(BigAmount(y))),
      ERow(y, "m1", 1, "a", "r2", Cell(1)),
      ERow(y, "m1", 1, "a", "r3", Blank) }

\* project "a" with NumFiller recipients q1.. of ascending amounts
FillerRecipients(y) ==
    [i \in 1..NumFiller |-> ERow(y, "m1", 1, "a", "q" \o ToString(i), Cell(i))]

\* the two newest year directories exist; one project with many recipients or few
InitTwoYears ==
    \E filler \in BOOLEAN :
     \E n1 \in 0..FreeRows(filler) :
      \E b1 \in [1..n1 -> TimeSeriesBudgetChoices(UnitCutoffYear)],
         n2 \in 0..(FreeRows(filler) - n1) :
        \E b2 \in [1..n2 -> TimeSeriesBudgetChoices(NewestYear)],
           n3 \in 0..(FreeRows(filler) - n1 - n2) :
          \E e1 \in [1..n3 -> TimeSeriesExpenditureChoices(UnitCutoffYear)],
             e2 \in SeqsUpTo(TimeSeriesExpenditureChoices(NewestYear),
                             FreeRows(filler) - n1 - n2 - n3) :
            csv = (UnitCutoffYear :>
                      Dir(<<>>,
                          (IF filler
                           THEN <<BRow(UnitCutoffYear, "m1", 1, "a", Cell(1), Blank, Blank, Blank)>>
                           ELSE <<>>) \o b1,
                          (IF filler THEN FillerRecipients(UnitCutoffYear) ELSE <<>>) \o e1,
                          {}))
                  @@ (NewestYear :> Dir(<<>>, b2, e2, {}))

\* both year directories exist, each with any of its files unreadable
InitUnreadable ==
    \E u1 \in SUBSET ReadsOfYear(UnitCutoffYear), u2 \in SUBSET ReadsOfYear(NewestYear) :
      \E o \in SUBSET {"overview"} :
        csv = (UnitCutoffYear :>
                  Dir(<<ORow("a", Cell(UnitCutoffYear - 1), Blank)>>,
                      <<BRow(UnitCutoffYear, "m1", 1, "a", Cell(2), Blank, Cell(1), Blank)>>,
                      <<ERow(UnitCutoffYear, "m1", 1, "a", "r1", Cell(1))>>,
                      u1 \cup o))
              @@ (NewestYear :>
                  Dir(<<>>,
                      <<BRow(NewestYear, "m2", 2, "b", Cell(1), Blank, Cell(1), Blank)>>,
                      <<ERow(NewestYear, "m2", 2, "b", "r2", Cell(1))>>,
                      u2))

\* overview rows of project "a": declared start and end years inside and
\* outside the accepted ranges, or absent
OverviewChoices ==
    { ORow("a", Cell(2010), Cell(2040)),
      ORow("a", Cell(2040), Cell(2060)),
      ORow("a", Blank, Cell(2030)),
      ORow("a", Cell(2020), Cell(1999)) }

\* both year directories exist; project "a" is budgeted in the older year and
\* described by overview rows in either year
InitOverview ==
    \E o1 \in SeqsUpTo(OverviewChoices, MaxRows - 1), o2 \in SeqsUpTo(OverviewChoices, MaxRows - 1) :
        csv = (UnitCutoffYear :>
                  Dir(o1, <<BRow(UnitCutoffYear, "m1", 1, "a", Cell(1), Blank, Blank, Blank)>>,
                      <<>>, {}))
              @@ (NewestYear :> Dir(o2, <<>>, <<>>, {}))

\* budget rows of the fiscal year ey with and without usable execution
\* rates: a stated rate of 0.5 and one of 1.5, executions below and above
\* the budget
RateChoices(ey) ==
    { BRow(ey, "m1", 1, "a", Cell(2), Blank, Cell(1), Cell(500)),
      BRow(ey, "m1", 2, "b", Cell(1), Blank, Cell(3), Cell(1500)),
      BRow(ey, "m2", 3, "c", Cell(1), Blank, Blank, Blank),
      BRow(ey, "m2", 4, "d", Blank, Blank, Cell(1), Cell(0)) }

\* one year directory whose budget rows are those the execution rate of the
\* year is taken from
InitRates ==
    \E y \in {UnitCutoffYear, NewestYear} :
      \E b \in SeqsUpTo(RateChoices(IF y = NewestYear THEN y - 1 ELSE y), MaxRows - 1) :
        csv = (y :> Dir(<<>>, b, <<>>, {}))

\* payments to one recipient of project "a", with refunds (negative amounts)
SignedChoices(y) ==
    { ERow(y, "m1", 1, "a", "r1", Cell(1)),
      ERow(y, "m1", 1, "a", "r1", Cell(-1)),
      ERow(y, "m1", 1, "a", "r1", Cell(2)) }

\* both year directories exist; project "a" is budgeted and is paid and
\* refunded in both years
InitSigned ==
    \E e1 \in SeqsUpTo(SignedChoices(UnitCutoffYear), MaxRows),
       e2 \in SeqsUpTo(SignedChoices(NewestYear), 1) :
        csv = (UnitCutoffYear :>
                  Dir(<<>>, <<BRow(UnitCutoffYear, "m1", 1, "a", Cell(1), Blank, Blank, Blank)>>,
                      e1, {}))
              @@ (NewestYear :> Dir(<<>>, <<>>, e2, {}))

Init ==
    /\ \/ InitOneYear \/ InitTwoYears \/ InitUnreadable
       \/ InitOverview \/ InitRates \/ InitSigned
    /\ pc = "years"
    /\ io = NoIO
    /\ yearIdx = 1
    /\ sankeyMainData = <<>>
    /\ outFiles = <<>>

Spec == Init /\ [][Next]_vars

-----------------------------------------------------------------------------
(* The run, one file operation at a time.  The reads and the writes a
   Promise.all issues together complete in any order; a write, or the creation
   of an output directory, may fail. *)

\* fs.writeFile(path, JSON.stringify(content)) of one entry of a file table
WritesOf(files) == {[path |-> p, content |-> files[p]] : p \in DOMAIN files}

\* every project detail goes to one file
ProjectPath_Shared(project) == <<"projects", "project.json">>

\* path.join(projectsDir, `${project.projectKey}.json`)
ProjectPath(project) == <<"projects", project.projectKey \o ".json">>

\* writePromises: one write for each value of projectMap
ProjectWrites(projects) ==
    {[path |-> ProjectPath(projects[i]), content |-> projects[i]] : i \in 1..Len(projects)}

\* processYearData(year): the parseCSV calls are issued together
StartYear ==
    /\ pc = "years"
    /\ yearIdx <= Len(YEARS_TO_PROCESS)
    /\ checkYearDirectoryExists(csv, YEARS_TO_PROCESS[yearIdx])
    /\ io' = [io EXCEPT !.reads = ReadsOfYear(YEARS_TO_PROCESS[yearIdx]), !.loaded = <<>>]
    /\ pc' = "reading"
    /\ UNCHANGED <<csv, yearIdx, sankeyMainData, outFiles>>

\* the year of the directory being read
ReadingYear ==
    IF pc = "reading" THEN YEARS_TO_PROCESS[yearIdx] ELSE ExistingYears(csv)[io.tsIdx]

\* one of the pending parseCSV calls settles
CompleteRead ==
    /\ pc \in {"reading", "tsReading"}
    /\ \E kind \in io.reads :
          IF parseCSVRejects(csv[ReadingYear], kind)
          THEN /\ pc' = "rejected"
               /\ io' = [io EXCEPT !.reads = @ \ {kind}]
          ELSE /\ pc' = pc
               /\ io' = [io EXCEPT !.reads = @ \ {kind},
                                   !.loaded = (kind :> parseCSV(csv[ReadingYear], kind)) @@ @]
    /\ UNCHANGED <<csv, yearIdx, sankeyMainData, outFiles>>

\* processYearData after the reads: the outputs are computed, the output
\* directory is created and the four writes are issued together
IssueYearWrites ==
    /\ pc = "reading"
    /\ io.reads = {}
    /\ LET year == YEARS_TO_PROCESS[yearIdx]
           budgetData == io.loaded["budget"]
           expenditureData == io.loaded["expenditure"]
       IN  /\ sankeyMainData' =
                (year :> generate6ColumnMainSankeyData(budgetData, expenditureData, year))
                @@ sankeyMainData
           /\ io' = [io EXCEPT !.writes = WritesOf(YearFiles(budgetData, expenditureData, year))]
    /\ pc' = "writing"
    /\ UNCHANGED <<csv, yearIdx, outFiles>>

\* fs.mkdir of an output directory rejects
MkdirFails ==
    /\ \/ pc = "reading" /\ io.reads = {}
       \/ pc = "aggregated"
    /\ pc' = "rejected"
    /\ UNCHANGED <<csv, io, yearIdx, sankeyMainData, outFiles>>

\* one of the pending writes completes; those issued together with a failed
\* one may still complete before the process exits
CompleteWrite ==
    /\ pc \in {"writing", "tsIndex", "tsWriting", "rejected"}
    /\ \E w \in io.writes :
          /\ outFiles' = (w.path :> w.content) @@ outFiles
          /\ io' = [io EXCEPT !.writes = @ \ {w}]
    /\ UNCHANGED <<csv, pc, yearIdx, sankeyMainData>>

\* one of the pending writes rejects
WriteFails ==
    /\ pc \in {"writing", "tsIndex", "tsWriting"}
    /\ \E w \in io.writes : io' = [io EXCEPT !.writes = @ \ {w}]
    /\ pc' = "rejected"
    /\ UNCHANGED <<csv, yearIdx, sankeyMainData, outFiles>>

\* processYearData returns to the loop of main()
AwaitYear ==
    /\ pc = "writing"
    /\ io.writes = {}
    /\ yearIdx' = yearIdx + 1
    /\ pc' = "years"
    /\ UNCHANGED <<csv, io, sankeyMainData, outFiles>>

\* main() after the loop calls generateProjectTimeSeriesData
StartTimeSeries ==
    /\ pc = "years"
    /\ yearIdx > Len(YEARS_TO_PROCESS)
    /\ io' = [io EXCEPT !.tsIdx = 1, !.all = <<>>]
    /\ pc' = "timeseries"
    /\ UNCHANGED <<csv, yearIdx, sankeyMainData, outFiles>>

\* loadYearData(year): three parseCSV calls issued together
StartLoadYear ==
    /\ pc = "timeseries"
    /\ io.tsIdx <= Len(ExistingYears(csv))
    /\ io' = [io EXCEPT !.reads = {"overview", "budget", "expenditure"}, !.loaded = <<>>]
    /\ pc' = "tsReading"
    /\ UNCHANGED <<csv, yearIdx, sankeyMainData, outFiles>>

\* allYears...Data.set(year, ...)
FinishLoadYear ==
    /\ pc = "tsReading"
    /\ io.reads = {}
    /\ io' = [io EXCEPT !.all = (ExistingYears(csv)[io.tsIdx] :>
                                    [overview |-> io.loaded["overview"],
                                     budget |-> io.loaded["budget"],
                                     expenditure |-> io.loaded["expenditure"]]) @@ @,
                        !.tsIdx = @ + 1]
    /\ pc' = "timeseries"
    /\ UNCHANGED <<csv, yearIdx, sankeyMainData, outFiles>>

\* steps 2 to 5: projectMap is built from the loaded years
AggregateProjects ==
    /\ pc = "timeseries"
    /\ io.tsIdx > Len(ExistingYears(csv))
    /\ io' = [io EXCEPT !.projects = ProjectTimeSeries(io.all, ExistingYears(csv))]
    /\ pc' = "aggregated"
    /\ UNCHANGED <<csv, yearIdx, sankeyMainData, outFiles>>

\* the projects directory is created and project-index.json is written alone
WriteIndex ==
    /\ pc = "aggregated"
    /\ io' = [io EXCEPT !.writes =
                {[path |-> <<"", "project-index.json">>, content |-> ProjectIndex(io.projects)]}]
    /\ pc' = "tsIndex"
    /\ UNCHANGED <<csv, yearIdx, sankeyMainData, outFiles>>

\* the project detail writes are issued together
IssueProjectWrites ==
    /\ pc = "tsIndex"
    /\ io.writes = {}
    /\ io' = [io EXCEPT !.writes = ProjectWrites(io.projects)]
    /\ pc' = "tsWriting"
    /\ UNCHANGED <<csv, yearIdx, sankeyMainData, outFiles>>

\* generateProjectTimeSeriesData returns and main() reports completion
Complete ==
    /\ pc = "tsWriting"
    /\ io.writes = {}
    /\ pc' = "done"
    /\ UNCHANGED <<csv, io, yearIdx, sankeyMainData, outFiles>>

\* the rejection reaches main().catch; the process exits with the writes
\* still pending abandoned
Catch ==
    /\ pc = "rejected"
    /\ pc' = mainCatch
    /\ io' = [io EXCEPT !.reads = {}, !.writes = {}]
    /\ UNCHANGED <<csv, yearIdx, sankeyMainData, outFiles>>

NextIO ==
    \/ StartYear \/ SkipYear \/ CompleteRead \/ IssueYearWrites \/ MkdirFails
    \/ CompleteWrite \/ WriteFails \/ AwaitYear
    \/ StartTimeSeries \/ StartLoadYear \/ FinishLoadYear \/ AggregateProjects \/ WriteIndex
    \/ IssueProjectWrites \/ Complete \/ Catch

\* the budget and expenditure files a directory of the step-wise run may hold
IOBudgetChoices(y) ==
    { <<>>,
      <<BRow(y, "m1", 1, "a", Cell(2), Blank, Cell(1), Blank)>>,
      <<BRow(y, "m1", 1, "a", Cell(2), Blank, Cell(1), Blank),
        BRow(y, "m2", 2, "b", Cell(1), Blank, Blank, Blank)>> }

IOExpenditureChoices(y) ==
    { <<>>, <<ERow(y, "m1", 1, "a", "r1", Cell(1))>> }

\* the newest year directory exists, the one before it may be missing
InitIO ==
    /\ \E present \in BOOLEAN :
        \E b1 \in IOBudgetChoices(UnitCutoffYear), b2 \in IOBudgetChoices(NewestYear),
           e2 \in IOExpenditureChoices(NewestYear) :
            csv = (IF present
                   THEN UnitCutoffYear :> Dir(<<>>, b1, <<>>, {})
                   ELSE <<>>)
                  @@ (NewestYear :> Dir(<<>>, b2, e2, {}))
    /\ pc = "years"
    /\ io = NoIO
    /\ yearIdx = 1
    /\ sankeyMainData = <<>>
    /\ outFiles = <<>>

\* a pending rejection is always delivered to main().catch
SpecIO == InitIO /\ [][NextIO]_vars /\ WF_vars(Catch)

-----------------------------------------------------------------------------
(* Properties of the outputs of a run *)

\* the years processYearData has run for
ProcessedYears == DOMAIN sankeyMainData

GraphFile(y) == <<YearDir(y), "sankey-main-topology-nivo.json">>

ExpendituresFile(y) == <<YearDir(y), "project-expenditures.json">>

StatisticsFile(y) == <<YearDir(y), "statistics.json">>

\* P holds of every main graph built so far: flavor A (kept in memory) and
\* flavor B (emitted)
AllGraphs(P(_)) ==
    \A y \in ProcessedYears : P(sankeyMainData[y]) /\ P(outFiles[GraphFile(y)])

SomeGraph(P(_)) ==
    \E y \in ProcessedYears : P(sankeyMainData[y]) \/ P(outFiles[GraphFile(y)])

NodeIds(g) == {g.nodes[i].id : i \in DOMAIN g.nodes}

NodeOf(g, id) == g.nodes[CHOOSE i \in DOMAIN g.nodes : g.nodes[i].id = id]

\* sum of the values of the links whose target is the node `id`
Incoming(g, id) ==
    SumSeq(MapSeq(LAMBDA l: l.value, SelectSeq(g.links, LAMBDA l: l.target = id)))

DeclaredBudget(g) == NodeOf(g, "total_budget").metadata.budget

DeclaredExecution(g) == NodeOf(g, "total_execution").metadata.execution

DifferenceNodesOf(g) == SelectSeq(g.nodes, LAMBDA n: n.type = "difference")

\* |totalBudget - totalExecution| of the graph's declared totals
DeclaredGap(g) == Abs(DeclaredBudget(g) - DeclaredExecution(g))

\* 0.1% of the larger declared total, rounded down (the gap is an integer)
DeclaredThreshold(g) == Max(DeclaredBudget(g), DeclaredExecution(g)) \div 1000

\* ministry nodes that feed total_budget / are fed by total_execution
BudgetSide(g, n) ==
    /\ n.type = "ministry"
    /\ \E k \in DOMAIN g.links : g.links[k].source = n.id /\ g.links[k].target = "total_budget"

ExecutionSide(g, n) ==
    /\ n.type = "ministry"
    /\ \E k \in DOMAIN g.links : g.links[k].source = "total_execution" /\ g.links[k].target = n.id

\* every amount cell of the input, together with the absent cell and the cell 0
AmountCells ==
    {Blank, Cell(0)}
    \cup UNION {UNION {{csv[y].budget[i].initialBudgetHalf, csv[y].budget[i].initialBudgetFull,
                        csv[y].budget[i].executionHalf, csv[y].budget[i].executionFull} :
                       i \in DOMAIN csv[y].budget} : y \in DOMAIN csv}
    \cup UNION {UNION {{csv[y].expenditure[i].amountYen, csv[y].expenditure[i].amountMillion,
                        csv[y].expenditure[i].amountPlain} :
                       i \in DOMAIN csv[y].expenditure} : y \in DOMAIN csv}

\* C1: normalizeAmount(x, year) is x * 1,000,000 for every fiscal year up to
\* and including 2023, x itself for 2024, and 0 for every year when x is 0,
\* null or absent.
C1_NormalizeAmount ==
    \A c \in AmountCells, year \in 2014..2024 :
        normalizeAmount(c, year) =
            IF c = Blank \/ c[1] = 0 THEN 0
            ELSE IF year <= 2023 THEN c[1] * 1000000
            ELSE c[1]

\* C1 witness: a run that has written the statistics of 2023 with a budget
\* of 500 (million yen) as 500,000,000 and those of 2024 with a budget of
\* 1000 (yen) as 1000
C1_Witness ==
    /\ {StatisticsFile(2023), StatisticsFile(2024)} \subseteq DOMAIN outFiles
    /\ Cell(500) \in AmountCells /\ Cell(1000) \in AmountCells
    /\ outFiles[StatisticsFile(2023)].totalBudget = 500 * 1000000
    /\ outFiles[StatisticsFile(2024)].totalBudget = 1000

Conserved(g) ==
    /\ Incoming(g, "total_budget") = DeclaredBudget(g)
    /\ Incoming(g, "total_execution") = DeclaredExecution(g)

\* C2 as stated: in both flavors and for every input, the values of the links
\* into total_budget sum to its metadata.budget and the values of the links
\* into total_execution sum to its metadata.execution, with a difference node
\* and also when the totals differ by less than the 0.1% threshold.
C2_ConservationAlways == AllGraphs(Conserved)

ConservedUpToUndrawnOvershoot(g) ==
    /\ Incoming(g, "total_budget") = DeclaredBudget(g)
    /\ Incoming(g, "total_execution") =
            IF Len(DifferenceNodesOf(g)) > 0 \/ DeclaredExecution(g) <= DeclaredBudget(g)
            THEN DeclaredExecution(g)
            ELSE DeclaredBudget(g)
    /\ Len(DifferenceNodesOf(g)) = 0 => DeclaredGap(g) <= DeclaredThreshold(g)

\* C2 amended: the links into total_budget always sum to its metadata.budget;
\* the links into total_execution sum to its metadata.execution whenever a
\* difference node is present or execution does not exceed budget; when
\* execution exceeds budget by no more than the 0.1% threshold there is no
\* difference node and the links into total_execution sum to the budget total.
C2_ConservationAmended == AllGraphs(ConservedUpToUndrawnOvershoot)

\* C2 witness: a graph without difference node whose declared execution
\* exceeds its declared budget, and a graph with a difference node
C2_Witness ==
    /\ SomeGraph(LAMBDA g: /\ Len(DifferenceNodesOf(g)) = 0
                           /\ DeclaredBudget(g) > 0
                           /\ DeclaredExecution(g) > DeclaredBudget(g))
    /\ SomeGraph(LAMBDA g: Len(DifferenceNodesOf(g)) = 1)

\* metadata.budget of the budget-side others node, 0 when there is none
OthersBudget(g) ==
    IF "ministry_others_budget" \in NodeIds(g)
    THEN NodeOf(g, "ministry_others_budget").metadata.budget
    ELSE 0

TopNBudget(g) ==
    SumSeq(MapSeq(LAMBDA n: n.metadata.budget,
                  SelectSeq(g.nodes, LAMBDA n: BudgetSide(g, n))))

\* C3: in every main graph the budgets of the individually shown budget-side
\* ministry nodes plus the budget of the budget-side others node (0 when
\* there is none) equal the totalBudget declared on total_budget.
C3_TopNPlusOthers ==
    AllGraphs(LAMBDA g: TopNBudget(g) + OthersBudget(g) = DeclaredBudget(g))

\* C3 witness: a graph with ten individual budget-side ministries and an
\* others node that carries budget
C3_Witness ==
    SomeGraph(LAMBDA g: /\ OthersBudget(g) > 0
                        /\ Len(SelectSeq(g.nodes, LAMBDA n: BudgetSide(g, n))) = 10
                        /\ TopNBudget(g) > 0)

LinksInto(g, id) == {k \in DOMAIN g.links : g.links[k].target = id}

LinksOutOf(g, id) == {k \in DOMAIN g.links : g.links[k].source = id}

DifferenceNodeCorrect(g) ==
    LET totalBudget == DeclaredBudget(g)
        totalExecution == DeclaredExecution(g)
        found == DifferenceNodesOf(g)
        node == found[1]
    IN  DeclaredGap(g) > DeclaredThreshold(g) =>
            /\ Len(found) = 1
            /\ node.metadata.differenceData.difference = DeclaredGap(g)
            /\ node.metadata.differenceData.direction =
                    IF totalBudget > totalExecution THEN "budget-excess" ELSE "execution-excess"
            /\ IF totalBudget > totalExecution
               THEN /\ Cardinality(LinksInto(g, node.id)) = 1
                    /\ LinksOutOf(g, node.id) = {}
                    /\ \A k \in LinksInto(g, node.id) :
                            /\ g.links[k].source = "total_budget"
                            /\ g.links[k].value = DeclaredGap(g)
               ELSE /\ Cardinality(LinksOutOf(g, node.id)) = 1
                    /\ LinksInto(g, node.id) = {}
                    /\ \A k \in LinksOutOf(g, node.id) :
                            /\ g.links[k].target = "total_execution"
                            /\ g.links[k].value = DeclaredGap(g)

\* C4: whenever |totalBudget - totalExecution| is strictly greater than 0.1%
\* of max(totalBudget, totalExecution), the graph has exactly one difference
\* node; its metadata records the absolute difference and the direction
\* budget-excess when budget is larger, else execution-excess; in the
\* budget-excess case it is the target of one link from total_budget carrying
\* the difference, in the execution-excess case the source of one link into
\* total_execution carrying the difference.
C4_DifferenceNode == AllGraphs(DifferenceNodeCorrect)

\* C4 witness: a graph above the threshold with budget in excess and a graph
\* above the threshold with execution in excess
C4_Witness ==
    /\ SomeGraph(LAMBDA g: /\ DeclaredGap(g) > DeclaredThreshold(g)
                           /\ DeclaredBudget(g) > DeclaredExecution(g))
    /\ SomeGraph(LAMBDA g: /\ DeclaredGap(g) > DeclaredThreshold(g)
                           /\ DeclaredExecution(g) > DeclaredBudget(g)
                           /\ DeclaredBudget(g) > 0)

TotalToTotal(g) ==
    {k \in DOMAIN g.links :
        g.links[k].source = "total_budget" /\ g.links[k].target = "total_execution"}

BelowThresholdCorrect(g) ==
    DeclaredGap(g) <= DeclaredThreshold(g) =>
        /\ Len(DifferenceNodesOf(g)) = 0
        /\ Cardinality(TotalToTotal(g)) = 1
        /\ \A k \in TotalToTotal(g) :
                g.links[k].value = Min(DeclaredBudget(g), DeclaredExecution(g))

\* C5: whenever |totalBudget - totalExecution| is at most 0.1% of
\* max(totalBudget, totalExecution), the graph has no difference node and
\* exactly one link from total_budget to total_execution, whose value is
\* min(totalBudget, totalExecution).
C5_BelowThreshold == AllGraphs(BelowThresholdCorrect)

\* C5 witness: a graph whose totals differ, by exactly the threshold, and a
\* graph whose totals are equal and positive
C5_Witness ==
    /\ SomeGraph(LAMBDA g: /\ DeclaredGap(g) > 0
                           /\ DeclaredGap(g) = DeclaredThreshold(g))
    /\ SomeGraph(LAMBDA g: /\ DeclaredGap(g) = 0
                           /\ DeclaredBudget(g) > 0)

WellFormed(g) ==
    /\ \A i, j \in DOMAIN g.nodes : i # j => g.nodes[i].id # g.nodes[j].id
    /\ \A i, j \in DOMAIN g.nodes :
            (/\ BudgetSide(g, g.nodes[i])
             /\ ExecutionSide(g, g.nodes[j])
             /\ g.nodes[i].name = g.nodes[j].name)
            => (i # j /\ g.nodes[i].id # g.nodes[j].id)
    /\ \A k \in DOMAIN g.links :
            g.links[k].source \in NodeIds(g) /\ g.links[k].target \in NodeIds(g)

\* C6: in every graph of both flavors the node ids are pairwise distinct, a
\* ministry shown on both sides has two different ids, and the source and the
\* target of every link are ids of nodes of the same graph.
C6_GraphWellFormed == AllGraphs(WellFormed)

\* C6 witness: a graph that shows one ministry on both sides, has others
\* nodes on both sides and a difference node
C6_Witness ==
    SomeGraph(LAMBDA g:
        /\ \E i, j \in DOMAIN g.nodes :
                /\ BudgetSide(g, g.nodes[i])
                /\ ExecutionSide(g, g.nodes[j])
                /\ g.nodes[i].name = g.nodes[j].name
        /\ {"ministry_others_budget", "ministry_others_execution"} \subseteq NodeIds(g)
        /\ Len(DifferenceNodesOf(g)) = 1)

\* the expenditure rows of year y for one project id and one recipient name
RecipientRows(y, id, r) ==
    SelectSeq(csv[y].expenditure,
              LAMBDA e: e.projectYear = y /\ e.projectId = id /\ e.recipientName = r)

\* the sum of their amounts, in yen
RecipientRowsTotal(y, id, r) ==
    SumSeq(MapSeq(LAMBDA e: normalizeAmount(RawExpenditure(e), y), RecipientRows(y, id, r)))

\* the non-blank recipient names of the input of year y
RecipientNames(y) ==
    {csv[y].expenditure[i].recipientName : i \in DOMAIN csv[y].expenditure} \ {""}

\* C7: in the per-year project-expenditures output every project's
\* expenditures list has at most one entry per recipient name, each entry
\* carries a recipient name of that project's rows, and its amount is the sum
\* of the amounts of all rows of the year with that project and that
\* recipient; a recipient whose rows sum to a positive amount has an entry.
C7_RecipientSummation ==
    \A y \in ProcessedYears :
        LET out == outFiles[ExpendituresFile(y)]
        IN  \A id \in DOMAIN out :
                /\ \A i \in DOMAIN out[id].expenditures :
                        out[id].expenditures[i].name \in RecipientNames(y)
                /\ \A r \in RecipientNames(y) :
                        LET entries == SelectSeq(out[id].expenditures, LAMBDA x: x.name = r)
                            total == RecipientRowsTotal(y, id, r)
                        IN  /\ Len(entries) <= 1
                            /\ total > 0 => Len(entries) = 1
                            /\ Len(entries) = 1 => entries[1].amount = total

\* C7 witness: an entry of the per-year output that sums two or more rows
\* with amounts
C7_Witness ==
    \E y \in ProcessedYears :
        \E id \in DOMAIN outFiles[ExpendituresFile(y)], r \in RecipientNames(y) :
            /\ \E i \in DOMAIN outFiles[ExpendituresFile(y)][id].expenditures :
                    outFiles[ExpendituresFile(y)][id].expenditures[i].name = r
            /\ Len(SelectSeq(RecipientRows(y, id, r),
                             LAMBDA e: normalizeAmount(RawExpenditure(e), y) > 0)) >= 2

\* a budget row of fiscal year y carries the project id
HasBudgetRow(y, id) ==
    \E i \in DOMAIN csv[y].budget :
        csv[y].budget[i].budgetYear = y /\ csv[y].budget[i].projectId = id

\* the expenditure rows of year y without those whose project id has no
\* budget row in the year
WithoutUnbudgeted(y) ==
    SelectSeq(csv[y].expenditure,
              LAMBDA e: ~(e.projectYear = y /\ e.projectId # 0 /\ ~HasBudgetRow(y, e.projectId)))

\* the part of C8 about the per-year output: the rows without budget row
\* leave project-expenditures.json as it is without them
UnbudgetedLeaveYearlyOutput ==
    \A y \in ProcessedYears :
        outFiles[ExpendituresFile(y)] =
            generateYearlyProjectExpendituresData(csv[y].budget, WithoutUnbudgeted(y), y)

\* C8: an expenditure row whose projectId has no budget row in the same
\* fiscal year adds nothing to the per-year project-expenditures output and
\* nothing to any ministry's execution or to totalExecution of the emitted
\* main graph: both outputs are what they are without such rows.
C8_UnbudgetedDropped ==
    /\ UnbudgetedLeaveYearlyOutput
    /\ \A y \in ProcessedYears :
            outFiles[GraphFile(y)] =
                convertToNivoFormat(
                    generate4ColumnTopologyBasedSankeyData(csv[y].budget, WithoutUnbudgeted(y), y))

ProjectFiles == {f \in DOMAIN outFiles : f[1] = "projects"}

\* the budget rows of year y that carry the project name and a project id
NamedBudgetRows(y, n) ==
    SelectSeq(csv[y].budget,
              LAMBDA b: b.budgetYear = y /\ b.projectName = n /\ b.projectId # 0)

\* the fiscal years in which the project name has such rows
BudgetYearsOf(n) == {y \in DOMAIN csv : Len(NamedBudgetRows(y, n)) > 0}

BudgetProjectNames ==
    {n \in UNION {{csv[y].budget[i].projectName : i \in DOMAIN csv[y].budget} : y \in DOMAIN csv} :
        n # "" /\ BudgetYearsOf(n) # {}}

\* the first positive amount of a sequence of amounts, 0 when there is none
FirstPositive(amounts) ==
    IF \E i \in DOMAIN amounts : amounts[i] > 0
    THEN amounts[CHOOSE i \in DOMAIN amounts :
                    amounts[i] > 0 /\ \A j \in 1..(i - 1) : amounts[j] <= 0]
    ELSE 0

YearBudgetOf(y, n) ==
    FirstPositive(MapSeq(LAMBDA b: normalizeAmount(Or(b.initialBudgetHalf, b.initialBudgetFull), y),
                         NamedBudgetRows(y, n)))

YearExecutionOf(y, n) ==
    FirstPositive(MapSeq(LAMBDA b: normalizeAmount(Or(b.executionHalf, b.executionFull), y),
                         NamedBudgetRows(y, n)))

\* C9: after the cross-year stage the budget rows of one project name, of
\* whatever fiscal years, are in one project file under one project key; its
\* yearlyData has exactly one entry per fiscal year that has such rows, and
\* the entry of a year holds that year's budget and execution only, never a
\* sum over years.
C9_YearlyDataPerYear ==
    pc = "done" =>
        \A n \in BudgetProjectNames :
            /\ Cardinality({f \in ProjectFiles : outFiles[f].projectName = n}) = 1
            /\ \A f \in ProjectFiles :
                    outFiles[f].projectName = n =>
                        /\ outFiles[f].projectKey = generateProjectKey(n)
                        /\ f[2] = generateProjectKey(n) \o ".json"
                        /\ DOMAIN outFiles[f].yearlyData = BudgetYearsOf(n)
                        /\ \A y \in BudgetYearsOf(n) :
                                /\ outFiles[f].yearlyData[y].budget = YearBudgetOf(y, n)
                                /\ outFiles[f].yearlyData[y].execution = YearExecutionOf(y, n)

\* C9 witness: a finished run with a project that has budget rows with
\* positive budgets in two fiscal years
C9_Witness ==
    /\ pc = "done"
    /\ \E n \in BudgetProjectNames :
            /\ Cardinality(BudgetYearsOf(n)) >= 2
            /\ \A y \in BudgetYearsOf(n) : YearBudgetOf(y, n) > 0

\* the expenditure rows of year y that name the project and the recipient
NamedRecipientRows(y, n, r) ==
    SelectSeq(csv[y].expenditure,
              LAMBDA e: e.projectYear = y /\ e.projectName = n /\ e.recipientName = r)

AllRecipientNames == UNION {RecipientNames(y) : y \in DOMAIN csv}

\* the distinct recipient names of the rows of a project, over all years
RecipientsNamed(n) ==
    {r \in AllRecipientNames : \E y \in DOMAIN csv : Len(NamedRecipientRows(y, n, r)) > 0}

\* those of them that have a row with a non-zero amount
RecipientsPaid(n) ==
    {r \in AllRecipientNames :
        \E y \in DOMAIN csv :
            \E i \in DOMAIN NamedRecipientRows(y, n, r) :
                TimeSeriesAmount(NamedRecipientRows(y, n, r)[i], y) # 0}

\* the cross-year total of a recipient of a project
CrossYearTotal(n, r) ==
    SumSeq([k \in 1..Len(ExistingYears(csv)) |->
                SumSeq(MapSeq(LAMBDA e: TimeSeriesAmount(e, ExistingYears(csv)[k]),
                              NamedRecipientRows(ExistingYears(csv)[k], n, r)))])

\* the top-10 rule of a project file, with Recipients(n) as the recipients
\* that are counted
TopTenOf(Recipients(_)) ==
    pc = "done" =>
        \A f \in ProjectFiles :
            LET project == outFiles[f]
                top == project.topExpenditures
                kept == {top[i].name : i \in DOMAIN top}
                all == Recipients(project.projectName)
            IN  /\ Len(top) = Min(10, Cardinality(all))
                /\ Cardinality(kept) = Len(top)
                /\ kept \subseteq all
                /\ \A i \in DOMAIN top :
                        top[i].totalAmount = CrossYearTotal(project.projectName, top[i].name)
                /\ \A r \in kept, q \in all \ kept :
                        CrossYearTotal(project.projectName, r)
                            >= CrossYearTotal(project.projectName, q)
                /\ \A i, j \in DOMAIN top : i < j => top[i].totalAmount >= top[j].totalAmount
                /\ DOMAIN project = {"projectName", "projectKey", "ministry", "startYear",
                                     "endYear", "yearlyData", "topExpenditures"}

\* C10 as stated: each project's topExpenditures holds exactly min(10, n)
\* recipients, n the number of distinct recipient names of the project across
\* all years; retained recipients have cross-year totals at least those of
\* discarded ones, the list is in descending order of total, and the project
\* file holds recipients nowhere but in topExpenditures.
C10_TopTenOfNamed == TopTenOf(RecipientsNamed)

\* C10 amended: the same with n the number of distinct recipient names of
\* the project that have, in some year, a row with a non-zero amount.
C10_TopTenOfPaid == TopTenOf(RecipientsPaid)

\* C10 witness: a finished run with a project of more than ten paid
\* recipients, one of them discarded with a positive total
C10_Witness ==
    /\ pc = "done"
    /\ \E f \in ProjectFiles :
            /\ Cardinality(RecipientsPaid(outFiles[f].projectName)) > 10
            /\ Len(outFiles[f].topExpenditures) = 10
            /\ outFiles[f].topExpenditures[1].totalAmount
                    > outFiles[f].topExpenditures[10].totalAmount

-----------------------------------------------------------------------------
(* Ordering of the persisted lists *)

MinistriesFile(y) == <<YearDir(y), "ministries.json">>

IndexFile == <<"", "project-index.json">>

\* a list is in non-increasing order of a key
NonIncreasing(list, Key(_)) ==
    \A i \in 1..(Len(list) - 1) : Key(list[i]) >= Key(list[i + 1])

\* the sum of the per-year budgets an index item lists
SumOfYearlyBudgets(item) ==
    LET sum[S \in SUBSET DOMAIN item.yearlyBudgets] ==
            IF S = {} THEN 0
            ELSE LET y == CHOOSE z \in S : TRUE
                 IN  item.yearlyBudgets[y] + sum[S \ {y}]
    IN  sum[DOMAIN item.yearlyBudgets]

\* C11: every emitted ministries.json lists the ministries by non-increasing
\* budget, and the emitted project-index.json lists the projects by
\* non-increasing totalBudget, where totalBudget is the sum of the project's
\* per-year budgets
C11_PersistedListsSorted ==
    /\ \A y \in ProcessedYears :
          NonIncreasing(outFiles[MinistriesFile(y)], LAMBDA m: m.budget)
    /\ pc = "done" =>
          /\ NonIncreasing(outFiles[IndexFile], LAMBDA item: item.totalBudget)
          /\ \A i \in 1..Len(outFiles[IndexFile]) :
                outFiles[IndexFile][i].totalBudget
                    = SumOfYearlyBudgets(outFiles[IndexFile][i])

\* both lists were reordered: a ministry and a project met later in the input
\* precede one met earlier, on account of a strictly larger amount
C11_Witness ==
    /\ pc = "done"
    /\ \E i, j \in 1..Len(outFiles[IndexFile]) :
          /\ i < j
          /\ outFiles[IndexFile][i].totalBudget > outFiles[IndexFile][j].totalBudget
          /\ outFiles[IndexFile][i].projectName = "a"
          /\ outFiles[IndexFile][j].projectName = "b"
          /\ \E y \in DOMAIN csv :
                /\ Len(csv[y].budget) >= 2
                /\ csv[y].budget[1].projectName = "b"
                /\ csv[y].budget[2].projectName = "a"
                /\ y \in ProcessedYears
                /\ Len(outFiles[MinistriesFile(y)]) = 2
                /\ outFiles[MinistriesFile(y)][1].name = "m1"
                /\ outFiles[MinistriesFile(y)][1].budget
                      > outFiles[MinistriesFile(y)][2].budget

-----------------------------------------------------------------------------
(* Unreadable input files *)

\* C12: parseCSV yields the empty list, and never a failure, for a file that
\* cannot be read or parsed; whichever per-year files are unreadable (the
\* block-connection file included), the run is not aborted: it processes every
\* year whose directory exists and completes the cross-year stage
C12_UnreadableFilesDoNotAbort ==
    /\ \A y \in DOMAIN csv : \A kind \in csv[y].unreadable :
          parseCSV(csv[y], kind) = <<>>
    /\ pc \in {"years", "done"}
    /\ pc = "done" =>
          /\ ProcessedYears = DOMAIN csv
          /\ IndexFile \in DOMAIN outFiles

\* a completed run in which the block-connection file of the newest year and
\* a budget file were unreadable
C12_Witness ==
    /\ pc = "done"
    /\ DOMAIN csv = {UnitCutoffYear, NewestYear}
    /\ "connection" \in csv[NewestYear].unreadable
    /\ "budget" \in csv[UnitCutoffYear].unreadable
    /\ "expenditure" \notin csv[UnitCutoffYear].unreadable
    /\ ProcessedYears = {UnitCutoffYear, NewestYear}

\* the four files processYearData writes for a year
YearOutputPaths(y) ==
    {GraphFile(y), StatisticsFile(y), MinistriesFile(y), ExpendituresFile(y)}

\* C13: a year whose budget-summary file cannot be read is skipped entirely:
\* none of its four output files is ever written
C13_MissingBudgetYearSkipped ==
    \A y \in DOMAIN csv :
        "budget" \in csv[y].unreadable => YearOutputPaths(y) \cap DOMAIN outFiles = {}

-----------------------------------------------------------------------------
(* Failing writes, and the order in which file operations complete *)

\* a step taken after a failure: no year is started or finished, the
\* cross-year stage does not start or advance, and nothing is written except
\* by writes already issued
StepAfterFailure ==
    pc \in {"rejected", "exit1"} =>
        /\ pc' \in {"rejected", "exit1"}
        /\ yearIdx' = yearIdx
        /\ sankeyMainData' = sankeyMainData
        /\ io'.reads \subseteq io.reads
        /\ io'.writes \subseteq io.writes
        /\ io'.tsIdx = io.tsIdx
        /\ \A p \in DOMAIN outFiles' :
              p \in DOMAIN outFiles \/ \E w \in io.writes : w.path = p

\* C14: once a write or the creation of an output directory has failed, the
\* run only moves on to the non-zero exit: no later year is processed, the
\* cross-year stage is not run, success is never reported, and the exit is
\* reached
C14_WriteFailureAborts ==
    /\ [][StepAfterFailure]_vars
    /\ (pc = "rejected") ~> (pc = "exit1")

\* the run has exited after a failure in the first of two existing years, one
\* of that year's four files written, the later year and the cross-year stage
\* untouched
C14_Witness ==
    /\ pc = "exit1"
    /\ DOMAIN csv = {UnitCutoffYear, NewestYear}
    /\ YEARS_TO_PROCESS[yearIdx] = UnitCutoffYear
    /\ DOMAIN outFiles = {StatisticsFile(UnitCutoffYear)}
    /\ ProcessedYears = {UnitCutoffYear}

\* the four files of every existing year and the files of the cross-year stage
ExpectedFiles ==
    LET years == ExistingYears(csv)
        upTo[i \in 0..Len(years)] ==
            IF i = 0 THEN TimeSeriesFiles(csv)
            ELSE YearFiles(parseCSV(csv[years[i]], "budget"),
                           parseCSV(csv[years[i]], "expenditure"), years[i])
                 @@ upTo[i - 1]
    IN  upTo[Len(years)]

\* C16: no two writes in flight together target the same path, and whatever
\* the order in which the reads and writes completed, a completed run has
\* written exactly the files determined by the input, each with the content
\* determined by the input
C16_CompletionOrderIrrelevant ==
    /\ \A w1, w2 \in io.writes : w1.path = w2.path => w1 = w2
    /\ pc = "done" => outFiles = ExpectedFiles

\* a completed run over two years and two projects
C16_Witness ==
    /\ pc = "done"
    /\ ProcessedYears = {UnitCutoffYear, NewestYear}
    /\ Cardinality({p \in DOMAIN outFiles : p[1] = "projects"}) = 2

-----------------------------------------------------------------------------
(* Budget rows without project id, project name or ministry *)

\* a budget row carrying project id, project name and ministry
HasIdNameMinistry(budget) ==
    budget.projectId # 0 /\ budget.projectName # "" /\ budget.ministry # ""

\* the budget nodes of a graph with the amounts they send to total_budget
BudgetLinksOf(g) ==
    {<<g.links[k].source, g.links[k].value>> :
        k \in {j \in DOMAIN g.links : g.links[j].target = "total_budget"}}

\* C15: the budget rows lacking project id, project name or ministry add
\* nothing to a year's outputs: the graph's ministry and total budgets,
\* statistics.totalBudget, eventCount and ministryCount, ministries.json and
\* project-expenditures.json are those of the input without these rows
C15_IncompleteBudgetRowsDropped ==
    \A y \in ProcessedYears :
        LET budgetData == parseCSV(csv[y], "budget")
            expected == YearFiles(SelectSeq(budgetData, HasIdNameMinistry),
                                  parseCSV(csv[y], "expenditure"), y)
        IN  /\ BudgetLinksOf(outFiles[GraphFile(y)]) = BudgetLinksOf(expected[GraphFile(y)])
            /\ DeclaredBudget(outFiles[GraphFile(y)]) = DeclaredBudget(expected[GraphFile(y)])
            /\ outFiles[StatisticsFile(y)].totalBudget = expected[StatisticsFile(y)].totalBudget
            /\ outFiles[StatisticsFile(y)].eventCount = expected[StatisticsFile(y)].eventCount
            /\ outFiles[StatisticsFile(y)].ministryCount = expected[StatisticsFile(y)].ministryCount
            /\ outFiles[MinistriesFile(y)] = expected[MinistriesFile(y)]
            /\ outFiles[ExpendituresFile(y)] = expected[ExpendituresFile(y)]

-----------------------------------------------------------------------------
(* The two flavors of the main graph *)

\* what a graph says of the aggregation: the ministries shown on either side
\* with their budget and execution, the collapsed ministries, the totals, and
\* the difference node with its direction
AggregationOf(g) ==
    [ministries |-> {<<g.nodes[i].id, g.nodes[i].metadata.budget, g.nodes[i].metadata.execution>> :
                        i \in {j \in DOMAIN g.nodes : g.nodes[j].type = "ministry"}},
     others |-> {<<g.nodes[i].id, g.nodes[i].metadata>> :
                        i \in {j \in DOMAIN g.nodes : g.nodes[j].type = "others"}},
     totalBudget |-> DeclaredBudget(g),
     totalExecution |-> DeclaredExecution(g),
     differences |-> {<<g.nodes[i].id, g.nodes[i].metadata.differenceData.direction>> :
                        i \in {j \in DOMAIN g.nodes : g.nodes[j].type = "difference"}}]

\* C17: for every processed year the graph with explicit columns (flavor A)
\* and the emitted topology graph (flavor B) show the same aggregation: the
\* same ministries with the same budget and execution, the same totals, the
\* same top-N and others membership, the same difference node and direction
C17_FlavorsAgree ==
    \A y \in ProcessedYears :
        AggregationOf(sankeyMainData[y]) = AggregationOf(outFiles[GraphFile(y)])

\* the sources of the links into a node, the targets of the links out of it
SourcesOf(g, id) ==
    {g.links[k].source : k \in {j \in DOMAIN g.links : g.links[j].target = id}}

TargetsOf(g, id) ==
    {g.links[k].target : k \in {j \in DOMAIN g.links : g.links[j].source = id}}

MaxOf(S) == CHOOSE x \in S : \A y \in S : y <= x

MinOf(S) == CHOOSE x \in S : \A y \in S : x <= y

\* depth of a node: 0 without incoming link, else 1 + the largest depth of a
\* source; `fuel` bounds the descent by the number of nodes
RECURSIVE DepthFrom(_, _, _)
DepthFrom(g, id, fuel) ==
    IF SourcesOf(g, id) = {} \/ fuel = 0 THEN 0
    ELSE 1 + MaxOf({DepthFrom(g, s, fuel - 1) : s \in SourcesOf(g, id)})

TopologyDepth(g, id) == DepthFrom(g, id, Len(g.nodes))

\* the column the chart component derives from the links (align="center"):
\* the depth of a node with an incoming link; one less than the smallest depth
\* of its targets for a node with outgoing links only
CenterColumn(g, id) ==
    IF SourcesOf(g, id) # {} THEN TopologyDepth(g, id)
    ELSE IF TargetsOf(g, id) # {}
    THEN MinOf({TopologyDepth(g, t) : t \in TargetsOf(g, id)}) - 1
    ELSE 0

NoColumnField(g) == \A i \in DOMAIN g.nodes : "column" \notin DOMAIN g.nodes[i]

HasMinistryNode(g) == \E i \in DOMAIN g.nodes : g.nodes[i].type \in {"ministry", "others"}

\* the nodes both flavors of a year's graph have
CommonNodeIds(y) == NodeIds(sankeyMainData[y]) \cap NodeIds(outFiles[GraphFile(y)])

LastStage == 3

\* the stage of a node: its depth, or for a node with outgoing links only the
\* stage before its nearest target; depths beyond the last stage are cut off
\* at LastStage + 1
StageOf(g, id) ==
    IF SourcesOf(g, id) # {} THEN DepthFrom(g, id, LastStage + 1)
    ELSE IF TargetsOf(g, id) # {}
    THEN MinOf({DepthFrom(g, t, LastStage + 1) : t \in TargetsOf(g, id)}) - 1
    ELSE 0

\* every link joins two nodes of the graph, none a node to itself, and leads
\* from a stage to the next; no chain of links is longer than the stages allow
LayeredDAG(g) ==
    /\ \A k \in DOMAIN g.links :
          /\ {g.links[k].source, g.links[k].target} \subseteq NodeIds(g)
          /\ g.links[k].source # g.links[k].target
          /\ StageOf(g, g.links[k].target) = StageOf(g, g.links[k].source) + 1
    /\ \A id \in NodeIds(g) :
          /\ StageOf(g, id) \in 0..LastStage
          /\ DepthFrom(g, id, LastStage + 1) <= LastStage

\* C19: the links of every emitted topology graph form a layered DAG: no
\* self-link, no cycle, and each node has one stage in 0..3 such that every
\* link leads from a node of stage k to a node of stage k + 1
C19_LayeredDAG ==
    \A y \in ProcessedYears : LayeredDAG(outFiles[GraphFile(y)])

\* an emitted graph with ministries and a collapsed others node on both
\* sides and a difference node: all four stages are inhabited
C19_Witness ==
    \E y \in ProcessedYears :
        LET g == outFiles[GraphFile(y)]
        IN  /\ {"ministry_others_budget", "ministry_others_execution"} \subseteq NodeIds(g)
            /\ DifferenceNodesOf(g) # <<>>
            /\ {StageOf(g, id) : id \in NodeIds(g)} = 0..LastStage

-----------------------------------------------------------------------------
(* The collapsed ministries of the emitted graph *)

\* the ministries of a year: those named on a budget row of the year
MinistriesOfYear(y) ==
    {csv[y].budget[i].ministry :
        i \in {j \in DOMAIN csv[y].budget :
                  csv[y].budget[j].budgetYear = y /\ csv[y].budget[j].ministry # ""}}

\* budget and execution the aggregation of the emitted graph holds for a ministry
OwnAmounts(y, m) ==
    LET ministryData ==
            Aggregate4Column(parseCSV(csv[y], "budget"), parseCSV(csv[y], "expenditure"), y).ministryData
    IN  ListItem(Get(ministryData, m))

\* the others node of one side of a graph is as it should be: `shown` are the
\* names of the side's individual ministry nodes, Key the amount ranked by
OthersNodeCorrect(y, g, othersId, shown, Key(_)) ==
    /\ othersId \in NodeIds(g) <=> Cardinality(MinistriesOfYear(y)) > topNMinistries
    /\ othersId \in NodeIds(g) =>
          LET metadata == NodeOf(g, othersId).metadata
              list == metadata.ministryList
              listed == {list[i].name : i \in DOMAIN list}
          IN  /\ Cardinality(shown) = topNMinistries
              /\ listed = MinistriesOfYear(y) \ shown
              /\ Len(list) = Cardinality(listed)
              /\ \A i \in DOMAIN list : list[i] = OwnAmounts(y, list[i].name)
              /\ \A i \in DOMAIN list : \A m \in shown :
                    Key(list[i]) <= Key(OwnAmounts(y, m))
              /\ SumSeq(MapSeq(LAMBDA item: item.budget, list)) = metadata.budget
              /\ SumSeq(MapSeq(LAMBDA item: item.execution, list)) = metadata.execution

\* names of the individual ministry nodes of one side
ShownOn(g, Side(_, _)) ==
    {g.nodes[i].name : i \in {j \in DOMAIN g.nodes : Side(g, g.nodes[j])}}

\* C20: on each side of every emitted graph the others node exists exactly
\* when the year has more than 10 ministries; its ministryList holds exactly
\* the ministries outside that side's top 10 (by budget on the budget side, by
\* execution on the execution side), each once and with its own budget and
\* execution, and the list's budgets and executions sum to the budget and
\* execution of the others node
C20_OthersNode ==
    \A y \in ProcessedYears :
        LET g == outFiles[GraphFile(y)]
        IN  /\ OthersNodeCorrect(y, g, "ministry_others_budget",
                                 ShownOn(g, BudgetSide), LAMBDA item: item.budget)
            /\ OthersNodeCorrect(y, g, "ministry_others_execution",
                                 ShownOn(g, ExecutionSide), LAMBDA item: item.execution)

\* an emitted graph whose two others nodes collapse different ministries
C20_Witness ==
    \E y \in ProcessedYears :
        LET g == outFiles[GraphFile(y)]
        IN  /\ {"ministry_others_budget", "ministry_others_execution"} \subseteq NodeIds(g)
            /\ NodeOf(g, "ministry_others_budget").metadata.ministryList
                  # NodeOf(g, "ministry_others_execution").metadata.ministryList
            /\ NodeOf(g, "ministry_others_budget").metadata.execution > 0

-----------------------------------------------------------------------------
(* Repeated rows of one project and year *)

\* the merge policy: the incoming amount when nothing is stored, else the sum
mergeAmount(existing, incoming) ==
    IF existing = 0 THEN incoming ELSE existing + incoming

\* the stored amount after a sequence of rows, each merged by mergeAmount
MergedAmounts(amounts) == FoldSeq(mergeAmount, 0, amounts)

BudgetAmountsOf(y, n) ==
    MapSeq(LAMBDA b: normalizeAmount(Or(b.initialBudgetHalf, b.initialBudgetFull), y),
           NamedBudgetRows(y, n))

ExecutionAmountsOf(y, n) ==
    MapSeq(LAMBDA b: normalizeAmount(Or(b.executionHalf, b.executionFull), y),
           NamedBudgetRows(y, n))

\* C21: in the cross-year output the budget and the execution stored for a
\* project name and fiscal year are the amounts of that year's rows of the
\* project merged by mergeAmount(existing, incoming) = incoming if
\* existing = 0, else existing + incoming
C21_CrossYearMergePolicy ==
    pc = "done" =>
        \A f \in ProjectFiles : \A y \in DOMAIN outFiles[f].yearlyData :
            /\ outFiles[f].yearlyData[y].budget
                  = MergedAmounts(BudgetAmountsOf(y, outFiles[f].projectName))
            /\ outFiles[f].yearlyData[y].execution
                  = MergedAmounts(ExecutionAmountsOf(y, outFiles[f].projectName))

\* what the cross-year aggregation has stored for a project name and year
\* after the first j rows of the year's budget file: <<budget, execution>>,
\* or <<>> when nothing is stored yet
StoredCrossYear(y, j, n) ==
    LET projectMap == projectMapOfBudgets((y :> [budget |-> SubSeq(csv[y].budget, 1, j)]), <<y>>)
    IN  IF Has(projectMap, n) /\ Has(Get(projectMap, n).yearlyData, y)
        THEN <<Get(Get(projectMap, n).yearlyData, y).budget,
               Get(Get(projectMap, n).yearlyData, y).execution>>
        ELSE <<>>

\* what the per-year aggregation has stored for a project id after the first
\* j rows: <<budget>>, or <<>> when nothing is stored yet
StoredPerYear(y, j, id) ==
    LET projectsById == projectsByIdOf(SubSeq(csv[y].budget, 1, j), y)
    IN  IF Has(projectsById, id) THEN <<Get(projectsById, id).budget>> ELSE <<>>

\* row j of the year's budget file leaves a non-zero stored amount as it is
\* when its own amount is blank or zero
RowKeepsStored(y, j) ==
    LET row == csv[y].budget[j]
        before == StoredCrossYear(y, j - 1, row.projectName)
        after == StoredCrossYear(y, j, row.projectName)
        beforeById == StoredPerYear(y, j - 1, row.projectId)
        afterById == StoredPerYear(y, j, row.projectId)
        noBudget == ~Truthy(Or(row.initialBudgetHalf, row.initialBudgetFull))
        noExecution == ~Truthy(Or(row.executionHalf, row.executionFull))
    IN  /\ before # <<>> /\ before[1] # 0 /\ noBudget => after[1] = before[1]
        /\ before # <<>> /\ before[2] # 0 /\ noExecution => after[2] = before[2]
        /\ beforeById # <<>> /\ beforeById[1] # 0 /\ noBudget => afterById = beforeById

\* C22: in the per-year and in the cross-year aggregation, once the budget or
\* the execution stored for a project and year is non-zero, a later row of
\* that project and year with a blank or zero amount leaves it unchanged, at
\* whatever position the row comes
C22_BlankRowKeepsStored ==
    \A y \in DOMAIN csv : \A j \in DOMAIN csv[y].budget :
        csv[y].budget[j].budgetYear = y => RowKeepsStored(y, j)

\* a finished run over a file in which a row without budget follows a row of
\* the same project and year that stored one, in both aggregations
C22_Witness ==
    /\ pc = "done"
    /\ \E y \in DOMAIN csv : \E j \in DOMAIN csv[y].budget :
          LET row == csv[y].budget[j]
          IN  /\ row.budgetYear = y
              /\ ~Truthy(Or(row.initialBudgetHalf, row.initialBudgetFull))
              /\ StoredCrossYear(y, j - 1, row.projectName) # <<>>
              /\ StoredCrossYear(y, j - 1, row.projectName)[1] > 0
              /\ StoredPerYear(y, j - 1, row.projectId) # <<>>
              /\ StoredPerYear(y, j - 1, row.projectId)[1] > 0
              /\ \E f \in ProjectFiles :
                    /\ outFiles[f].projectName = row.projectName
                    /\ outFiles[f].yearlyData[y].budget
                          = StoredCrossYear(y, j - 1, row.projectName)[1]

-----------------------------------------------------------------------------
(* Declared start and end years *)

\* the in-range values the overview rows of a project name state in a year,
\* in row order; Field gives the cell of a row
StatedYears(y, n, Field(_), range) ==
    SelectSeq(MapSeq(Field, SelectSeq(parseCSV(csv[y], "overview"),
                                      LAMBDA o: o.projectName = n)),
              LAMBDA cell: Truthy(cell) /\ cell[1] \in range)

\* the value of the newest year that states one, Blank (null) when none does
NewestStated(n, Field(_), range) ==
    LET stating == {y \in DOMAIN csv : StatedYears(y, n, Field, range) # <<>>}
    IN  IF stating = {} THEN Blank
        ELSE StatedYears(MaxOf(stating), n, Field, range)[1]

\* C23: after the run the startYear of every project is the start year stated
\* by the newest fiscal year whose overview rows of the project state a value
\* in [2000, 2030], and null when no year does; endYear likewise with
\* [2000, 2050]; so an older year never replaces a newer one and no value
\* outside the range is stored
C23_DeclaredYears ==
    pc = "done" =>
        \A f \in ProjectFiles :
            /\ outFiles[f].startYear
                  = NewestStated(outFiles[f].projectName,
                                 LAMBDA o: o.startYearDeclared, 2000..2030)
            /\ outFiles[f].endYear
                  = NewestStated(outFiles[f].projectName,
                                 LAMBDA o: Or(o.endYearFull, o.endYearHalf), 2000..2050)

\* a finished run in which both years state an in-range start year and they
\* differ, the newer year states an end year out of range and the older one
\* an end year in range
C23_Witness ==
    /\ pc = "done"
    /\ DOMAIN csv = {UnitCutoffYear, NewestYear}
    /\ \E f \in ProjectFiles :
          LET n == outFiles[f].projectName
              Start(o) == o.startYearDeclared
              End(o) == Or(o.endYearFull, o.endYearHalf)
          IN  /\ StatedYears(UnitCutoffYear, n, Start, 2000..2030) # <<>>
              /\ StatedYears(NewestYear, n, Start, 2000..2030) # <<>>
              /\ StatedYears(UnitCutoffYear, n, Start, 2000..2030)[1]
                    # StatedYears(NewestYear, n, Start, 2000..2030)[1]
              /\ StatedYears(NewestYear, n, End, 2000..2050) = <<>>
              /\ parseCSV(csv[NewestYear], "overview") # <<>>
              /\ outFiles[f].endYear # Blank

-----------------------------------------------------------------------------
(* Statistics *)

\* the budget rows the execution figures of a year are taken from
ExecutionRows(y) == executionYearBudgetDataOf(parseCSV(csv[y], "budget"), y)

\* the rows with a usable non-zero rate: a stated rate in the newest year,
\* positive budget and execution in the other years
QualifyingRows(y) ==
    SelectSeq(ExecutionRows(y),
              LAMBDA b: IF y = NewestYear THEN Truthy(b.executionRate)
                        ELSE RawInitialBudget(b)[1] > 0 /\ RawExecution(b)[1] > 0)

\* the rate a qualifying row contributes: stated and uncapped in the newest
\* year, execution / initial budget capped at 1 in the other years
ContributedRate(y, b) ==
    IF y = NewestYear THEN Frac(b.executionRate[1], 1000)
    ELSE FracMin1(Frac(normalizeAmount(RawExecution(b), y),
                       normalizeAmount(RawInitialBudget(b), y)))

MeanRate(y) ==
    LET rows == QualifyingRows(y)
        sum == FoldSeq(LAMBDA acc, b: FracAdd(acc, ContributedRate(y, b)), Frac(0, 1), rows)
    IN  IF Len(rows) = 0 THEN Frac(0, 1) ELSE Frac(sum.num, sum.den * Len(rows))

\* C24: statistics.averageExecutionRate is the unweighted mean over the
\* qualifying rows (0 when there is none) of the stated rate, uncapped, in the
\* newest year, and of execution / initial budget capped at 1 in other years
C24_AverageExecutionRate ==
    \A y \in ProcessedYears : outFiles[StatisticsFile(y)].averageExecutionRate = MeanRate(y)

-----------------------------------------------------------------------------
(* Expenditure in the emitted graph and in project-expenditures.json *)

\* sum of totalExecution over the entries `ids` of a project-expenditures output
RECURSIVE ExecutionOfEntries(_, _)
ExecutionOfEntries(entries, ids) ==
    IF ids = {} THEN 0
    ELSE LET id == CHOOSE i \in ids : TRUE
         IN  entries[id].totalExecution + ExecutionOfEntries(entries, ids \ {id})

\* the entries of a project-expenditures output that belong to a ministry
EntriesOfMinistry(entries, m) == {id \in DOMAIN entries : entries[id].ministry = m}

\* what a graph carries for a ministry: the metadata of its ministry nodes
\* and its items in the ministryList of the others nodes
CarriedFor(g, m) ==
    {[budget |-> g.nodes[i].metadata.budget, execution |-> g.nodes[i].metadata.execution] :
        i \in {j \in DOMAIN g.nodes : g.nodes[j].type = "ministry" /\ g.nodes[j].name = m}}
    \cup UNION {
        {[budget |-> g.nodes[i].metadata.ministryList[k].budget,
          execution |-> g.nodes[i].metadata.ministryList[k].execution] :
            k \in {l \in DOMAIN g.nodes[i].metadata.ministryList :
                      g.nodes[i].metadata.ministryList[l].name = m}} :
        i \in {j \in DOMAIN g.nodes : g.nodes[j].type = "others"}}

\* C25: the totalExecution declared on the total_execution node of the
\* emitted graph is the sum of totalExecution over the entries of the year's
\* project-expenditures output, and the execution the graph carries for a
\* ministry is the sum of totalExecution over that ministry's entries
C25_GraphExecutionIsProjectExecution ==
    \A y \in ProcessedYears :
        LET g == outFiles[GraphFile(y)]
            entries == outFiles[ExpendituresFile(y)]
        IN  /\ NodeOf(g, "total_execution").metadata.execution
                  = ExecutionOfEntries(entries, DOMAIN entries)
            /\ \A m \in MinistriesOfYear(y) : \A carried \in CarriedFor(g, m) :
                  carried.execution = ExecutionOfEntries(entries, EntriesOfMinistry(entries, m))

-----------------------------------------------------------------------------
(* ministries.json and the emitted graph *)

\* C26: for every ministry of a year the budget and the execution written to
\* ministries.json are the budget and the execution the emitted graph carries
\* for that ministry, in its ministry nodes or in the ministryList of the
\* others nodes
C26_MinistriesFileAgreesWithGraph ==
    \A y \in ProcessedYears :
        LET g == outFiles[GraphFile(y)]
            ministries == outFiles[MinistriesFile(y)]
        IN  \A i \in DOMAIN ministries :
                ministries[i].name \in MinistriesOfYear(y) =>
                    /\ CarriedFor(g, ministries[i].name) # {}
                    /\ \A carried \in CarriedFor(g, ministries[i].name) :
                          /\ carried.budget = ministries[i].budget
                          /\ carried.execution = ministries[i].execution

-----------------------------------------------------------------------------
(* Expenditure figures of statistics.json *)

\* the expenditure rows of a fiscal year
ExpenditureRowsOf(y) ==
    SelectSeq(parseCSV(csv[y], "expenditure"), LAMBDA e: e.projectYear = y)

\* every expenditure row of the year belongs to a budgeted project and names
\* its recipient
AllRowsBudgetedAndNamed(y) ==
    \A i \in DOMAIN ExpenditureRowsOf(y) :
        /\ ExpenditureRowsOf(y)[i].recipientName # ""
        /\ ExpenditureRowsOf(y)[i].projectId \in DOMAIN outFiles[ExpendituresFile(y)]

\* C27: statistics.totalExpenditure is the sum of the normalized amounts of
\* the year's expenditure rows, the amount of a row read from the columns the
\* per-project aggregators read; when every row belongs to a budgeted project
\* and names a recipient, it is the sum of totalExecution over the entries of
\* project-expenditures.json, before and after the unit cutoff
C27_TotalExpenditure ==
    \A y \in ProcessedYears :
        LET entries == outFiles[ExpendituresFile(y)]
            total == outFiles[StatisticsFile(y)].totalExpenditure
        IN  /\ total = SumSeq(MapSeq(LAMBDA e: normalizeAmount(RawExpenditure(e), y),
                                     ExpenditureRowsOf(y)))
            /\ AllRowsBudgetedAndNamed(y) =>
                  total = ExecutionOfEntries(entries, DOMAIN entries)


\* the project ids of the year's budget rows
BudgetedIds(y) ==
    {parseCSV(csv[y], "budget")[i].projectId :
        i \in {j \in DOMAIN parseCSV(csv[y], "budget") :
                  /\ parseCSV(csv[y], "budget")[j].budgetYear = y
                  /\ parseCSV(csv[y], "budget")[j].projectId # 0}}

\* the project ids the year's expenditure rows refer to
SpentIds(y) == {ExpenditureRowsOf(y)[i].projectId : i \in DOMAIN ExpenditureRowsOf(y)}

\* C28: statistics.projectsWithoutExpenditures is never negative and is the
\* number of the year's budgeted project ids without an expenditure row of
\* that year, also when expenditure rows refer to project ids that have no
\* budget row
C28_ProjectsWithoutExpenditures ==
    \A y \in ProcessedYears :
        LET n == outFiles[StatisticsFile(y)].projectsWithoutExpenditures
        IN  /\ n >= 0
            /\ n = Cardinality(BudgetedIds(y) \ SpentIds(y))

-----------------------------------------------------------------------------
(* Recipient entries of the project files *)

\* sum of the amounts a yearlyAmounts object holds for the years `years`
RECURSIVE SumOverYears(_, _)
SumOverYears(yearlyAmounts, years) ==
    IF years = {} THEN 0
    ELSE LET y == CHOOSE x \in years : TRUE
         IN  yearlyAmounts[y].amount + SumOverYears(yearlyAmounts, years \ {y})

SumOfYearlyAmounts(yearlyAmounts) == SumOverYears(yearlyAmounts, DOMAIN yearlyAmounts)

\* C29: in every project file, every recipient entry has totalAmount equal to
\* the sum of its yearlyAmounts and yearCount equal to the number of years in
\* yearlyAmounts, whatever the signs of the amounts of the rows
C29_RecipientTotals ==
    pc = "done" =>
        \A f \in ProjectFiles :
            \A i \in DOMAIN outFiles[f].topExpenditures :
                LET e == outFiles[f].topExpenditures[i]
                IN  /\ e.totalAmount = SumOfYearlyAmounts(e.yearlyAmounts)
                    /\ e.yearCount = Cardinality(DOMAIN e.yearlyAmounts)

-----------------------------------------------------------------------------
(* The files the presentation layer reads *)

\* public/data/year_${year}/sankey-main.json
loadPreprocessedSankeyTopologyData(year) == <<YearDir(year), "sankey-main.json">>

\* path.join(DATA_BASE_PATH, `year_${year}`, 'statistics.json')
getStatistics(year) == <<YearDir(year), "statistics.json">>

\* path.join(DATA_BASE_PATH, `year_${year}`, 'project-spendings.json')
getProjectSpendings(year) == <<YearDir(year), "project-spendings.json">>

\* the year page: public/data/year_${year}/project-expenditures.json
YearPage(year) == <<YearDir(year), "project-expenditures.json">>

\* the per-year files the presentation layer reads for a year
PresentationReads(year) ==
    {loadPreprocessedSankeyTopologyData(year), getStatistics(year),
     getProjectSpendings(year), YearPage(year)}

\* C30: every per-year file the presentation layer reads for a processed year
\* is a file processYearData has written for that year under the same name
C30_ReadFilesAreWritten ==
    \A y \in ProcessedYears : PresentationReads(y) \subseteq DOMAIN outFiles

=============================================================================
